---- MODULE Spec2Model ----
(***************************************************************************)
(* Model of the SNES audio subsystem of snesulate/rsnes: the SPC700 core   *)
(* (rsnes/src/spc700.rs) and the host side mailbox ports of the device     *)
(* (snesulate/src/device.rs).                                              *)
(*                                                                         *)
(* The emulator object is the record `spc`, one field per field of the     *)
(* Rust struct Spc700.  Every method is an operator from records to        *)
(* records; methods that return a value return [s |-> state, val |-> v].   *)
(* Four fields are not fields of the struct:                              *)
(*   fault   - "none" while the process runs, otherwise the panic that     *)
(*             ended it (todo!(), index out of range, ...);                *)
(*   backend - the samples handed to the audio sink by the current step;   *)
(*   ticked  - the timers update_timer was called for in the current step, *)
(*             in the order of the calls;                                  *)
(*   overflow_checks - whether the build panics on integer overflow (a     *)
(*             debug build) or wraps (a release build).                    *)
(***************************************************************************)
EXTENDS Integers, Sequences, FiniteSets, TLC

VARIABLES spc,      \* the Spc700 object
          todo,     \* run_cycle iterations left in the refresh() in progress
          op,       \* the last operation performed and what it returned
          hist      \* history the properties refer to (never read by the code)

vars == <<spc, todo, op, hist>>

-----------------------------------------------------------------------------
(* Fixed-width integer helpers                                             *)

Pow2(n) == 2 ^ n

U8(v) == v % 256

U16(v) == v % 65536

\* `v as i8`, `v as i16` from the unsigned bit pattern
I8(v) == IF U8(v) >= 128 THEN U8(v) - 256 ELSE U8(v)

I16(v) == IF U16(v) >= 32768 THEN U16(v) - 65536 ELSE U16(v)

\* arithmetic shift right of a signed value, shift left
Shr(v, n) == v \div Pow2(n)

Shl(v, n) == v * Pow2(n)

Bit(v, i) == (v \div Pow2(i)) % 2

RECURSIVE BitAnd(_, _)
BitAnd(a, b) ==
  IF a = 0 \/ b = 0 THEN 0
  ELSE (a % 2) * (b % 2) + 2 * BitAnd(a \div 2, b \div 2)

BitOr(a, b) == a + b - BitAnd(a, b)

BitXor(a, b) == a + b - 2 * BitAnd(a, b)

Not8(v) == 255 - v

Not16(v) == 65535 - v

Clamp(v, lo, hi) == IF v < lo THEN lo ELSE IF v > hi THEN hi ELSE v

Max(a, b) == IF a >= b THEN a ELSE b

Min(a, b) == IF a <= b THEN a ELSE b

-----------------------------------------------------------------------------
(* Constants of the program                                                *)

MEMORY_SIZE == 65536

F0_RESET == 128

CARRY == 1

ZERO == 2

INTERRUPT_ENABLE == 4

HALF_CARRY == 8

BREAK == 16

ZERO_PAGE == 32

OVERFLOW == 64

SIGN == 128

DECODE_BUFFER_SIZE == 19

\* timing::Cycles is an unsigned 32-bit integer
CyclesBits == 32

\* A Cycles value is held as two 16-bit halves, [hi, lo] for hi * 2^16 + lo,
\* because a 32-bit unsigned value does not fit the integers of the checker.
CyclesFrom(v) == [hi |-> v \div 65536, lo |-> v % 65536]

\* Cycles + Cycles, with the carry out of the top bit
CyclesAdd(a, b) ==
  LET lo == a.lo + b.lo
      hi == a.hi + b.hi + lo \div 65536
  IN  [sum   |-> [hi |-> hi % Pow2(CyclesBits - 16), lo |-> lo % 65536],
       carry |-> hi >= Pow2(CyclesBits - 16)]

\* Cycles / d and Cycles % d for a divisor d < 2^29: with h = hi * 2^15 the
\* value is 2 * h + lo
CyclesDivRem(a, d) ==
  LET h    == a.hi * 32768
      rest == 2 * (h % d) + a.lo
  IN  [quot |-> 2 * (h \div d) + rest \div d, rem |-> rest % d]

\* timing::APU_CPU_TIMING_PROPORTION_NTSC
APU_CPU_TIMING_PROPORTION_NTSC == <<118125, 5632>>

ROM ==
  << 205, 239, 189, 232, 0, 198, 29, 208, 252, 143, 170, 244, 143, 187, 245, 120,
     204, 244, 208, 251, 47, 25, 235, 244, 208, 252, 126, 244, 208, 11, 228, 245,
     203, 244, 215, 0, 252, 208, 243, 171, 1, 16, 239, 126, 244, 16, 235, 186,
     246, 218, 0, 186, 244, 196, 244, 221, 93, 208, 219, 31, 0, 0, 192, 255 >>

GAUSS_INTERPOLATION_POINTS ==
  << 0, 0, 0, 0, 0, 0, 0, 0, 0, 0, 0, 0, 0, 0, 0, 0,
     1, 1, 1, 1, 1, 1, 1, 1, 1, 1, 1, 2, 2, 2, 2, 2,
     2, 2, 3, 3, 3, 3, 3, 4, 4, 4, 4, 4, 5, 5, 5, 5,
     6, 6, 6, 6, 7, 7, 7, 8, 8, 8, 9, 9, 9, 10, 10, 10,
     11, 11, 11, 12, 12, 13, 13, 14, 14, 15, 15, 15, 16, 16, 17, 17,
     18, 19, 19, 20, 20, 21, 21, 22, 23, 23, 24, 24, 25, 26, 27, 27,
     28, 29, 29, 30, 31, 32, 32, 33, 34, 35, 36, 36, 37, 38, 39, 40,
     41, 42, 43, 44, 45, 46, 47, 48, 49, 50, 51, 52, 53, 54, 55, 56,
     58, 59, 60, 61, 62, 64, 65, 66, 67, 69, 70, 71, 73, 74, 76, 77,
     78, 80, 81, 83, 84, 86, 87, 89, 90, 92, 94, 95, 97, 99, 100, 102,
     104, 106, 107, 109, 111, 113, 115, 117, 118, 120, 122, 124, 126, 128, 130, 132,
     134, 137, 139, 141, 143, 145, 147, 150, 152, 154, 156, 159, 161, 163, 166, 168,
     171, 173, 175, 178, 180, 183, 186, 188, 191, 193, 196, 199, 201, 204, 207, 210,
     212, 215, 218, 221, 224, 227, 230, 233, 236, 239, 242, 245, 248, 251, 254, 257,
     260, 263, 267, 270, 273, 276, 280, 283, 286, 290, 293, 297, 300, 304, 307, 311,
     314, 318, 321, 325, 328, 332, 336, 339, 343, 347, 351, 354, 358, 362, 366, 370,
     374, 378, 381, 385, 389, 393, 397, 401, 405, 410, 414, 418, 422, 426, 430, 434,
     439, 443, 447, 451, 456, 460, 464, 469, 473, 477, 482, 486, 491, 495, 499, 504,
     508, 513, 517, 522, 527, 531, 536, 540, 545, 550, 554, 559, 563, 568, 573, 577,
     582, 587, 592, 596, 601, 606, 611, 615, 620, 625, 630, 635, 640, 644, 649, 654,
     659, 664, 669, 674, 678, 683, 688, 693, 698, 703, 708, 713, 718, 723, 728, 732,
     737, 742, 747, 752, 757, 762, 767, 772, 777, 782, 787, 792, 797, 802, 806, 811,
     816, 821, 826, 831, 836, 841, 846, 851, 855, 860, 865, 870, 875, 880, 884, 889,
     894, 899, 904, 908, 913, 918, 923, 927, 932, 937, 941, 946, 951, 955, 960, 965,
     969, 974, 978, 983, 988, 992, 997, 1001, 1005, 1010, 1014, 1019, 1023, 1027, 1032, 1036,
     1040, 1045, 1049, 1053, 1057, 1061, 1066, 1070, 1074, 1078, 1082, 1086, 1090, 1094, 1098, 1102,
     1106, 1109, 1113, 1117, 1121, 1125, 1128, 1132, 1136, 1139, 1143, 1146, 1150, 1153, 1157, 1160,
     1164, 1167, 1170, 1174, 1177, 1180, 1183, 1186, 1190, 1193, 1196, 1199, 1202, 1205, 1207, 1210,
     1213, 1216, 1219, 1221, 1224, 1227, 1229, 1232, 1234, 1237, 1239, 1241, 1244, 1246, 1248, 1251,
     1253, 1255, 1257, 1259, 1261, 1263, 1265, 1267, 1269, 1270, 1272, 1274, 1275, 1277, 1279, 1280,
     1282, 1283, 1284, 1286, 1287, 1288, 1290, 1291, 1292, 1293, 1294, 1295, 1296, 1297, 1297, 1298,
     1299, 1300, 1300, 1301, 1302, 1302, 1303, 1303, 1303, 1304, 1304, 1304, 1304, 1304, 1305, 1305 >>

CYCLES ==
  << 2, 0, 4, 5, 3, 4, 3, 6, 2, 6, 5, 4, 5, 4, 6, 0,
     2, 0, 4, 5, 4, 5, 5, 6, 5, 5, 6, 0, 2, 2, 0, 6,
     2, 0, 4, 5, 3, 4, 3, 0, 2, 6, 5, 4, 0, 4, 5, 2,
     2, 0, 4, 5, 4, 5, 5, 0, 5, 0, 6, 0, 2, 2, 3, 8,
     2, 0, 4, 5, 3, 4, 0, 0, 2, 0, 0, 4, 5, 4, 6, 0,
     0, 0, 4, 5, 4, 5, 5, 0, 5, 0, 4, 5, 2, 2, 4, 3,
     2, 0, 4, 5, 3, 4, 3, 2, 2, 6, 0, 4, 0, 4, 5, 5,
     0, 0, 4, 5, 4, 5, 5, 0, 5, 0, 5, 0, 2, 2, 3, 0,
     2, 0, 4, 5, 3, 4, 0, 6, 2, 6, 5, 4, 5, 2, 4, 5,
     2, 0, 4, 5, 4, 5, 5, 6, 5, 0, 5, 5, 2, 2, 12, 5,
     3, 0, 4, 5, 3, 4, 0, 0, 2, 0, 4, 4, 5, 2, 4, 4,
     2, 0, 4, 5, 4, 5, 5, 0, 0, 0, 5, 5, 2, 2, 0, 4,
     3, 0, 4, 5, 4, 5, 4, 7, 2, 5, 0, 4, 5, 2, 4, 9,
     2, 0, 4, 5, 5, 6, 6, 7, 4, 0, 5, 5, 2, 2, 6, 0,
     2, 0, 4, 5, 3, 4, 3, 6, 2, 4, 5, 3, 4, 3, 4, 0,
     2, 0, 4, 5, 4, 5, 5, 6, 3, 4, 5, 4, 2, 2, 4, 0 >>

\* calculate_gain_noise_rates: entry n of the table
ADSR_GAIN_NOISE_RATES(n) ==
  IF n < 26
  THEN LET inv == 34 - n
           xx  == inv \div 3
           yy  == inv % 3
       IN  Pow2(xx - 2) * yy + Pow2(xx)
  ELSE 32 - n

\* the tables are indexed from 0 in the program
RomAt(i) == ROM[i + 1]

GaussAt(i) == GAUSS_INTERPOLATION_POINTS[i + 1]

CyclesOf(opc) == CYCLES[opc + 1]

-----------------------------------------------------------------------------
(* Memory: a 64 KiB array, kept as the function of its non-zero bytes      *)

MemGet(m, addr) == IF addr \in DOMAIN m THEN m[addr] ELSE 0

MemSet(m, addr, val) ==
  IF val = 0
  THEN [k \in (DOMAIN m) \ {addr} |-> m[k]]
  ELSE [k \in (DOMAIN m) \cup {addr} |-> IF k = addr THEN val ELSE m[k]]

POWER_UP_MEMORY == [k \in {240} |-> F0_RESET]

-----------------------------------------------------------------------------
(* Channel and Dsp                                                         *)

Attack == 0

Decay == 1

Sustain == 2

Gain == 3

Release == 4

StereoNew(v) == [l |-> v, r |-> v]

StereoNew2(l, r) == [l |-> l, r |-> r]

ChannelNew ==
  [ volume          |-> StereoNew(0),
    pitch           |-> 0,
    source_number   |-> 0,
    dir_addr        |-> 0,
    data_addr       |-> 0,
    adsr            |-> [k \in 0..1 |-> 0],
    gain_mode       |-> 0,
    gain            |-> 0,
    vx_env          |-> 0,
    vx_out          |-> 0,
    sustain         |-> 0,
    unused          |-> [k \in 0..2 |-> 0],
    fir_coefficient |-> 0,
    decode_buffer   |-> [k \in 0..(DECODE_BUFFER_SIZE - 1) |-> 0],
    pitch_counter   |-> 0,
    period          |-> Attack,
    period_rate_map |-> [k \in 0..3 |-> 0],
    rate_index      |-> 0,
    end_bit         |-> FALSE,
    loop_bit        |-> FALSE,
    last_sample     |-> 0 ]

DspNew ==
  [ echo_delay         |-> 1,
    echo_index         |-> 1,
    source_dir_addr    |-> 0,
    echo_data_addr     |-> 0,
    channels           |-> [k \in 0..7 |-> ChannelNew],
    pitch_modulation   |-> 0,
    echo_feedback      |-> 0,
    noise              |-> 0,
    echo               |-> 0,
    fade_in            |-> 0,
    fade_out           |-> 0,
    flags              |-> 224,
    master_volume      |-> StereoNew(0),
    echo_volume        |-> StereoNew(0),
    unused             |-> 0,
    echo_buffer_offset |-> 0,
    fir_buffer         |-> [k \in 0..7 |-> StereoNew2(0, 0)],
    fir_buffer_index   |-> 0 ]

\* Spc700::new (NTSC timing)
Spc700New ==
  [ mem               |-> POWER_UP_MEMORY,
    input             |-> [k \in 0..3 |-> 0],
    output            |-> [k \in 0..3 |-> 0],
    dsp               |-> DspNew,
    a                 |-> 0,
    x                 |-> 0,
    y                 |-> 0,
    sp                |-> 0,
    pc                |-> 65472,
    status            |-> 0,
    timer_max         |-> [k \in 0..2 |-> 0],
    timers            |-> [k \in 0..2 |-> 0],
    timer_enable      |-> 0,
    counters          |-> [k \in 0..2 |-> 0],
    dispatch_counter  |-> 0,
    master_cycles     |-> CyclesFrom(0),
    cycles_ahead      |-> 7,
    timing_proportion |-> APU_CPU_TIMING_PROPORTION_NTSC,
    overflow_checks   |-> FALSE,
    fault             |-> "none",
    backend           |-> << >>,
    ticked            |-> << >> ]

Running(s) == s.fault = "none"

\* a panic: the state stays as it is and no later statement executes
Panic(s, what) == IF Running(s) THEN [s EXCEPT !.fault = what] ELSE s

Ret(s, v) == [s |-> s, val |-> v]

\* `let x = e; ...`: the rest of a function body, F, with x bound to e
Bind(x, F(_)) == F(x)

-----------------------------------------------------------------------------
(* DSP register file behind $F2/$F3                                        *)

\* Spc700::read_dsp_register
ReadDspRegister(s, id) ==
  Bind(BitAnd(id, 143), LAMBDA rid :
      IF BitAnd(rid, 14) # 12
      THEN IF id \div 16 > 7
           THEN Ret(Panic(s, "IndexOutOfBounds"), 0)
           ELSE Bind(s.dsp.channels[id \div 16], LAMBDA channel :
                    CASE rid = 0  -> Ret(s, U8(channel.volume.l))
                      [] rid = 1  -> Ret(s, U8(channel.volume.r))
                      [] rid = 2  -> Ret(s, channel.pitch % 256)
                      [] rid = 3  -> Ret(s, channel.pitch \div 256)
                      [] rid = 4  -> Ret(s, channel.source_number)
                      [] rid = 5  -> Ret(s, channel.adsr[0])
                      [] rid = 6  -> Ret(s, channel.adsr[1])
                      [] rid = 7  -> Ret(s, channel.gain_mode)
                      [] rid = 8  -> Ret(s, channel.vx_env)
                      [] rid = 9  -> Ret(s, channel.vx_out)
                      [] rid = 10 -> Ret(s, channel.unused[0])
                      [] rid = 11 -> Ret(s, channel.unused[1])
                      [] rid = 14 -> Ret(s, channel.unused[2])
                      [] rid = 15 -> Ret(s, U8(channel.fir_coefficient)))
      ELSE CASE id = 12  -> Ret(s, U8(s.dsp.master_volume.l))
             [] id = 28  -> Ret(s, U8(s.dsp.master_volume.r))
             [] id = 44  -> Ret(s, U8(s.dsp.echo_volume.l))
             [] id = 60  -> Ret(s, U8(s.dsp.echo_volume.r))
             [] id = 76  -> Ret(s, s.dsp.fade_in)
             [] id = 92  -> Ret(s, s.dsp.fade_out)
             [] id = 108 -> Ret(s, s.dsp.flags)
             [] id = 13  -> Ret(s, U8(s.dsp.echo_feedback))
             [] id = 29  -> Ret(s, s.dsp.unused)
             [] id = 45  -> Ret(s, s.dsp.pitch_modulation)
             [] id = 61  -> Ret(s, s.dsp.noise)
             [] id = 77  -> Ret(s, s.dsp.echo)
             [] id = 93  -> Ret(s, s.dsp.source_dir_addr \div 256)
             [] id = 109 -> Ret(s, s.dsp.echo_data_addr \div 256)
             [] id = 125 -> Ret(s, U8(s.dsp.echo_delay \div 512))
             [] OTHER    -> Ret(Panic(s, "UnsupportedMmio"), 0))

\* a directory of one-byte entries
DirAddrUnscaled(base, source_number) == U16(base + source_number)

\* the directory address of a voice: base + 4 * source number
DirAddr(base, source_number) == U16(base + U16(Shl(source_number, 2)))

\* Spc700::write_dsp_register, a voice register (rid & 0xe # 0xc)
WriteChannelRegister(s, id, rid, val) ==
  Bind(id \div 16, LAMBDA c :
      Bind(s.dsp.channels[c], LAMBDA ch :
      Bind(CASE rid = 0  -> [ch EXCEPT !.volume.l = I8(val)]
              [] rid = 1  -> [ch EXCEPT !.volume.r = I8(val)]
              [] rid = 2  -> [ch EXCEPT !.pitch = BitOr(BitAnd(ch.pitch, 16128), val)]
              [] rid = 3  -> [ch EXCEPT !.pitch =
                                BitOr(BitAnd(ch.pitch, 255), Shl(BitAnd(val, 63), 8))]
              [] rid = 4  -> [ch EXCEPT !.source_number = val,
                                        !.dir_addr = DirAddr(s.dsp.source_dir_addr, val)]
              [] rid = 5  -> [ch EXCEPT
                                !.adsr[0] = val,
                                !.period_rate_map[Attack] =
                                   ADSR_GAIN_NOISE_RATES(BitOr(U8(Shl(BitAnd(val, 15), 1)), 1)),
                                !.period_rate_map[Decay] =
                                   ADSR_GAIN_NOISE_RATES(BitOr(Shr(BitAnd(val, 112), 3), 16))]
              [] rid = 6  -> [ch EXCEPT
                                !.adsr[1] = val,
                                !.period_rate_map[Sustain] =
                                   ADSR_GAIN_NOISE_RATES(BitAnd(val, 31)),
                                !.sustain = (Shr(val, 5) + 1) * 256]
              [] rid = 7  -> [ch EXCEPT !.gain_mode = val]
              [] rid = 8  -> [ch EXCEPT !.vx_env = val]
              [] rid = 9  -> [ch EXCEPT !.vx_out = val]
              [] rid = 10 -> [ch EXCEPT !.unused[0] = val]
              [] rid = 11 -> [ch EXCEPT !.unused[1] = val]
              [] rid = 14 -> [ch EXCEPT !.unused[2] = val]
              [] rid = 15 -> [ch EXCEPT !.fir_coefficient = I8(val)], LAMBDA nc :
      IF c > 7
      THEN Panic(s, "IndexOutOfBounds")
      ELSE [s EXCEPT !.dsp.channels[c] = nc])))

\* Spc700::write_dsp_register, a global register
WriteGlobalRegister(s, id, val) ==
  CASE id = 12  -> [s EXCEPT !.dsp.master_volume.l = I8(val)]
    [] id = 28  -> [s EXCEPT !.dsp.master_volume.r = I8(val)]
    [] id = 44  -> [s EXCEPT !.dsp.echo_volume.l = I8(val)]
    [] id = 60  -> [s EXCEPT !.dsp.echo_volume.r = I8(val)]
    [] id = 76  -> [s EXCEPT !.dsp.fade_in = val]
    [] id = 92  -> [s EXCEPT !.dsp.fade_out = val]
    [] id = 108 -> [s EXCEPT !.dsp.flags = val]
    [] id = 13  -> [s EXCEPT !.dsp.echo_feedback = I8(val)]
    [] id = 29  -> [s EXCEPT !.dsp.unused = val]
    [] id = 45  -> [s EXCEPT !.dsp.pitch_modulation = BitAnd(val, 254)]
    [] id = 61  -> [s EXCEPT !.dsp.noise = val]
    [] id = 77  -> [s EXCEPT !.dsp.echo = val]
    [] id = 93  ->
         [s EXCEPT !.dsp.source_dir_addr = Shl(val, 8),
                   !.dsp.channels =
                      [k \in 0..7 |->
                         [s.dsp.channels[k] EXCEPT !.dir_addr =
                            DirAddr(Shl(val, 8), s.dsp.channels[k].source_number)]]]
    [] id = 109 -> [s EXCEPT !.dsp.echo_data_addr = Shl(val, 8)]
    [] id = 125 -> [s EXCEPT !.dsp.echo_delay = Max(1, Shl(BitAnd(val, 15), 9))]
    [] OTHER    -> Panic(s, "UnsupportedMmio")

\* the voice registers told from the global ones by two bits of the id only
WriteDspRegisterWideMask(s, id, val) ==
  Bind(BitAnd(id, 143), LAMBDA rid :
      IF ~Running(s) THEN s
      ELSE IF BitAnd(rid, 12) # 12
           THEN WriteChannelRegister(s, id, rid, val)
           ELSE WriteGlobalRegister(s, id, val))

\* Spc700::write_dsp_register
WriteDspRegister(s, id, val) ==
  Bind(BitAnd(id, 143), LAMBDA rid :
      IF ~Running(s) THEN s
      ELSE IF BitAnd(rid, 14) # 12
           THEN WriteChannelRegister(s, id, rid, val)
           ELSE WriteGlobalRegister(s, id, val))

-----------------------------------------------------------------------------
(* Memory map and MMIO                                                     *)

\* a reset that starts from the power-up memory image, as Spc700::new does
ResetPowerUp(s) ==
  IF ~Running(s) THEN s
  ELSE [s EXCEPT !.mem = POWER_UP_MEMORY,
                 !.input = [k \in 0..3 |-> 0], !.output = [k \in 0..3 |-> 0],
                 !.a = 0, !.x = 0, !.y = 0, !.sp = 0, !.pc = 65472, !.status = 0]

\* Spc700::reset
Reset(s) ==
  IF ~Running(s) THEN s
  ELSE [s EXCEPT !.mem = MemSet(@, 240, F0_RESET),
                 !.input = [k \in 0..3 |-> 0], !.output = [k \in 0..3 |-> 0],
                 !.a = 0, !.x = 0, !.y = 0, !.sp = 0, !.pc = 65472, !.status = 0]

\* Spc700::is_rom_mapped
IsRomMapped(s) == BitAnd(MemGet(s.mem, 240), 128) > 0

\* a mailbox with one array for both directions
ReadMailboxAliased(s, addr) == s.output[addr - 244]

\* Spc700::read, 0xf4..=0xf7: the host -> audio mailbox
ReadMailbox(s, addr) == s.input[addr - 244]

\* Spc700::read, 0xfd..=0xff: Cell::take returns the counter and leaves 0
ReadCounter(s, addr) ==
  Ret([s EXCEPT !.counters[addr - 253] = 0], s.counters[addr - 253])

\* an overlay that cannot be switched off
ReadHighAlwaysRom(s, addr) == RomAt(BitAnd(addr, 63))

\* Spc700::read, 0xffc0..=0xffff
ReadHigh(s, addr) ==
  IF IsRomMapped(s) THEN RomAt(BitAnd(addr, 63)) ELSE MemGet(s.mem, addr)

\* Spc700::read
Read(s, addr) ==
  IF ~Running(s) THEN Ret(s, 0)
  ELSE CASE addr = 243                 -> ReadDspRegister(s, MemGet(s.mem, 242))
         [] addr \in 244..247          -> Ret(s, ReadMailbox(s, addr))
         [] addr \in 253..255          -> ReadCounter(s, addr)
         [] addr = 241 \/ addr \in 248..252 -> Ret(Panic(s, "UnsupportedMmio"), 0)
         [] addr \in 65472..65535      -> Ret(s, ReadHigh(s, addr))
         [] OTHER                      -> Ret(s, MemGet(s.mem, addr))

\* the two clear bits taken for each other
ClearInputSwapped(input, val) ==
  [k \in 0..3 |->
     IF (k < 2 /\ BitAnd(val, 32) > 0) \/ (k >= 2 /\ BitAnd(val, 16) > 0)
     THEN 0 ELSE input[k]]

\* Spc700::write, 0xf1: the bits that clear the input mailbox halves
ClearInput(input, val) ==
  [k \in 0..3 |->
     IF (k < 2 /\ BitAnd(val, 16) > 0) \/ (k >= 2 /\ BitAnd(val, 32) > 0)
     THEN 0 ELSE input[k]]

\* a reset on every write that has the bit set, not only on the rising edge
ActivatedWhenSet(val, timer_enable) == val

\* Spc700::write, 0xf1: the timers that this write switches on
Activated(val, timer_enable) == BitAnd(val, Not8(timer_enable))

\* Spc700::write, 0xf1
WriteControl(s, val) ==
  Bind(Activated(val, s.timer_enable), LAMBDA active :
      [s EXCEPT
         !.input        = ClearInput(s.input, val),
         !.timer_enable = BitAnd(val, 7),
         !.counters     = [k \in 0..2 |-> IF Bit(active, k) = 1 THEN 0 ELSE s.counters[k]],
         !.timers       = [k \in 0..2 |-> IF Bit(active, k) = 1 THEN 0 ELSE s.timers[k]]])

\* Spc700::write, 0xf4..=0xf7: the audio -> host mailbox
WriteMailbox(s, addr, val) == [s EXCEPT !.output[addr - 244] = val]

\* the period registers in reverse order
TimerMaxIndexMirrored(addr) == 252 - addr

\* Spc700::write, 0xfa | 0xfb | 0xfc: the index of the period register
TimerMaxIndex(addr) == BitXor(BitAnd(Not16(addr), 3), 1)

\* the unimplemented registers $F8, $F9, $FD-$FF taken for RAM
WriteUnsupportedAsRam(s, addr, val) ==
  IF ~Running(s) THEN s
  ELSE CASE addr = 241            -> WriteControl(s, val)
         [] addr = 243            -> WriteDspRegister(s, MemGet(s.mem, 242), val)
         [] addr \in 244..247     -> WriteMailbox(s, addr, val)
         [] addr \in 250..252     -> [s EXCEPT !.timer_max[TimerMaxIndex(addr)] = val]
         [] OTHER                 -> [s EXCEPT !.mem = MemSet(s.mem, addr, val)]

\* Spc700::write
Write(s, addr, val) ==
  IF ~Running(s) THEN s
  ELSE CASE addr = 241            -> WriteControl(s, val)
         [] addr = 243            -> WriteDspRegister(s, MemGet(s.mem, 242), val)
         [] addr \in 244..247     -> WriteMailbox(s, addr, val)
         [] addr \in 250..252     -> [s EXCEPT !.timer_max[TimerMaxIndex(addr)] = val]
         [] addr \in {248, 249, 253, 254, 255} -> Panic(s, "UnsupportedMmio")
         [] OTHER                 -> [s EXCEPT !.mem = MemSet(s.mem, addr, val)]

-----------------------------------------------------------------------------
(* Word accesses, direct page, stack, program counter                      *)

\* Spc700::read16
Read16(s, addr) ==
  Bind(Read(s, addr), LAMBDA lo :
      Bind(Read(lo.s, U16(addr + 1)), LAMBDA hi :
      Ret(hi.s, lo.val + 256 * hi.val)))

\* Spc700::read16_norom
Read16Norom(s, addr) == MemGet(s.mem, addr) + 256 * MemGet(s.mem, U16(addr + 1))

\* Spc700::write16_norom
Write16Norom(s, addr, val) ==
  [s EXCEPT !.mem = MemSet(MemSet(s.mem, addr, val % 256), U16(addr + 1), val \div 256)]

\* Spc700::get_small
GetSmall(s, addr) == BitOr(addr, Shl(BitAnd(s.status, ZERO_PAGE), 3))

\* Spc700::read_small
ReadSmall(s, addr) == Read(s, GetSmall(s, addr))

\* Spc700::read16_small
Read16Small(s, addr) ==
  Bind(ReadSmall(s, addr), LAMBDA lo :
      Bind(ReadSmall(lo.s, U8(addr + 1)), LAMBDA hi :
      Ret(hi.s, lo.val + 256 * hi.val)))

\* Spc700::write16
Write16(s, addr, val) == Write(Write(s, addr, val % 256), U16(addr + 1), val \div 256)

\* Spc700::write_small
WriteSmall(s, addr, val) == Write(s, GetSmall(s, addr), val)

\* Spc700::write16_small
Write16Small(s, addr, val) ==
  WriteSmall(WriteSmall(s, addr, val % 256), U8(addr + 1), val \div 256)

\* assignments to registers: nothing is assigned once the process has panicked
SetA(s, v) == IF Running(s) THEN [s EXCEPT !.a = v] ELSE s

SetX(s, v) == IF Running(s) THEN [s EXCEPT !.x = v] ELSE s

SetY(s, v) == IF Running(s) THEN [s EXCEPT !.y = v] ELSE s

SetSp(s, v) == IF Running(s) THEN [s EXCEPT !.sp = v] ELSE s

SetPc(s, v) == IF Running(s) THEN [s EXCEPT !.pc = v] ELSE s

SetStatusReg(s, v) == IF Running(s) THEN [s EXCEPT !.status = v] ELSE s

\* a stack pointer that is decremented before the write
PushPreDecrement(s, val) ==
  Bind(SetSp(s, U8(s.sp - 1)), LAMBDA t :
      Write(t, BitOr(t.sp, 256), val))

\* Spc700::push
Push(s, val) ==
  Bind(Write(s, BitOr(s.sp, 256), val), LAMBDA w :
      SetSp(w, U8(w.sp - 1)))

\* Spc700::push16
Push16(s, val) == Push(Push(s, val \div 256), val % 256)

\* Spc700::pull
Pull(s) ==
  Bind(SetSp(s, U8(s.sp + 1)), LAMBDA t :
      Read(t, BitOr(t.sp, 256)))

\* Spc700::pull16
Pull16(s) ==
  Bind(Pull(s), LAMBDA lo :
      Bind(Pull(lo.s), LAMBDA hi :
      Ret(hi.s, lo.val + 256 * hi.val)))

\* Spc700::load
Load(s) ==
  Bind(Read(s, s.pc), LAMBDA r :
      Ret(SetPc(r.s, U16(r.s.pc + 1)), r.val))

\* Spc700::load16
Load16(s) ==
  Bind(Read16(s, s.pc), LAMBDA r :
      Ret(SetPc(r.s, U16(r.s.pc + 2)), r.val))

\* Spc700::ya
Ya(s) == s.a + 256 * s.y

\* Spc700::set_ya
SetYa(s, val) == SetY(SetA(s, val % 256), val \div 256)

\* Spc700::set_status
SetStatus(s, cond, flag) ==
  IF cond
  THEN SetStatusReg(s, BitOr(s.status, flag))
  ELSE SetStatusReg(s, BitAnd(s.status, Not8(flag)))

\* Spc700::update_nz8
UpdateNz8(s, val) ==
  IF val > 0
  THEN SetStatusReg(s, BitOr(BitAnd(s.status, Not8(ZERO + SIGN)), BitAnd(val, SIGN)))
  ELSE SetStatusReg(s, BitOr(BitAnd(s.status, Not8(SIGN)), ZERO))

\* Spc700::update_nz16
UpdateNz16(s, val) ==
  IF val > 0
  THEN SetStatusReg(s, BitOr(BitAnd(s.status, Not8(ZERO + SIGN)),
                             BitAnd(val \div 256, SIGN)))
  ELSE SetStatusReg(s, BitOr(BitAnd(s.status, Not8(SIGN)), ZERO))

\* Spc700::branch_rel: the new program counter when the branch is taken
BranchTarget(pc, rel) ==
  IF rel < 128 THEN U16(pc + rel) ELSE U16(pc - (256 - rel))

\* Spc700::branch_rel, returning the cycle count as well
BranchRel(s, rel, cond, cycles) ==
  IF cond
  THEN Ret(SetPc(s, BranchTarget(s.pc, rel)), cycles + 2)
  ELSE Ret(s, cycles)

\* Spc700::compare with the subtraction done as a + !b, the borrow forgotten
CompareNoBorrow(s, a, b) ==
  Bind(a + Not8(b), LAMBDA res :
      UpdateNz8(SetStatus(s, res > 255, CARRY), res % 256))

\* Spc700::compare
Compare(s, a, b) ==
  Bind(a + Not8(b) + 1, LAMBDA res :
      UpdateNz8(SetStatus(s, res > 255, CARRY), res % 256))

-----------------------------------------------------------------------------
(* StereoSample arithmetic                                                 *)

\* StereoSample<i32>::clamp16
Clamp16(v) == [l |-> Clamp(v.l, -32768, 32767), r |-> Clamp(v.r, -32768, 32767)]

\* StereoSample<i32>::clip16
Clip16(v) == [l |-> I16(v.l), r |-> I16(v.r)]

\* StereoSample<i16>::saturating_add32
SaturatingAdd32(acc, v) ==
  [l |-> Clamp(acc.l + Clamp16(v).l, -32768, 32767),
   r |-> Clamp(acc.r + Clamp16(v).r, -32768, 32767)]

StereoMul(v, w) == [l |-> v.l * w.l, r |-> v.r * w.r]

StereoScale(v, k) == [l |-> v.l * k, r |-> v.r * k]

StereoShr(v, n) == [l |-> Shr(v.l, n), r |-> Shr(v.r, n)]

StereoAdd(v, w) == [l |-> v.l + w.l, r |-> v.r + w.r]

-----------------------------------------------------------------------------
(* Envelopes                                                               *)

\* a reset that leaves the voice ready to attack
ChannelResetToAttack(ch) == [ch EXCEPT !.period = Attack, !.gain = 0]

\* Channel::reset
ChannelReset(ch) == [ch EXCEPT !.period = Release, !.gain = 0]

\* an attack without the upper bound
UpdateGainAttackUnclamped(ch, rate) ==
  Bind(Min(ch.gain + (IF rate = 1 THEN 1024 ELSE 32), 65535), LAMBDA g :
      [ch EXCEPT !.gain = g, !.period = IF g > 2015 THEN Decay ELSE ch.period])

\* Channel::update_gain, Attack
UpdateGainAttack(ch, rate) ==
  Bind(Min(Min(ch.gain + (IF rate = 1 THEN 1024 ELSE 32), 65535), 2047), LAMBDA g :
      [ch EXCEPT !.gain = g, !.period = IF g > 2015 THEN Decay ELSE ch.period])

\* Channel::update_gain, Decay | Sustain
UpdateGainDecay(ch) ==
  Bind(Max(ch.gain - (Shr(Max(ch.gain - 1, 0), 8) + 1), 0), LAMBDA g :
      [ch EXCEPT !.gain = g,
                 !.period = IF ch.period = Decay /\ g < ch.sustain
                            THEN Sustain ELSE ch.period])

\* Channel::update_gain; the result carries the panic of the two failing arms
UpdateGain(ch, rate) ==
  CASE ch.period = Attack              -> [ch |-> UpdateGainAttack(ch, rate), fault |-> "none"]
    [] ch.period \in {Decay, Sustain}  -> [ch |-> UpdateGainDecay(ch), fault |-> "none"]
    [] ch.period = Gain                -> [ch |-> ch, fault |-> "TodoGainMode"]
    [] ch.period = Release             -> [ch |-> ch, fault |-> "UpdateGainInRelease"]

\* an envelope step that does not skip a rate of 0
EnvelopeStepAnyRate(ch) ==
  IF ch.period = Release
  THEN Bind(ch.gain < 8, LAMBDA ov :
           Bind(U16(ch.gain - 8), LAMBDA new_gain :
           [ch |-> [ch EXCEPT !.gain = IF ov \/ new_gain > 2047 THEN 0 ELSE new_gain],
            fault |-> "none"]))
  ELSE Bind(ch.period_rate_map[ch.period], LAMBDA rate :
           IF BitAnd(ch.gain_mode, 128) = 0 /\ BitAnd(ch.adsr[0], 128) = 0
           THEN [ch |-> [ch EXCEPT !.gain = BitAnd(ch.gain_mode, 127)], fault |-> "none"]
           ELSE Bind(U16(ch.rate_index + 1), LAMBDA ri :
                    IF ri >= rate
                    THEN UpdateGain([ch EXCEPT !.rate_index = 0], rate)
                    ELSE [ch |-> [ch EXCEPT !.rate_index = ri], fault |-> "none"]))

\* Spc700::sound_cycle, the envelope step of one voice
EnvelopeStep(ch) ==
  IF ch.period = Release
  THEN Bind(ch.gain < 8, LAMBDA ov :
           Bind(U16(ch.gain - 8), LAMBDA new_gain :
           [ch |-> [ch EXCEPT !.gain = IF ov \/ new_gain > 2047 THEN 0 ELSE new_gain],
            fault |-> "none"]))
  ELSE Bind(ch.period_rate_map[ch.period], LAMBDA rate :
           IF BitAnd(ch.gain_mode, 128) = 0 /\ BitAnd(ch.adsr[0], 128) = 0
           THEN [ch |-> [ch EXCEPT !.gain = BitAnd(ch.gain_mode, 127)], fault |-> "none"]
           ELSE IF rate > 0
                THEN Bind(U16(ch.rate_index + 1), LAMBDA ri :
                         IF ri >= rate
                         THEN UpdateGain([ch EXCEPT !.rate_index = 0], rate)
                         ELSE [ch |-> [ch EXCEPT !.rate_index = ri], fault |-> "none"])
                ELSE [ch |-> ch, fault |-> "none"])

-----------------------------------------------------------------------------
(* BRR decoding                                                            *)

\* sign extension of a 4-bit nibble
Nibble(n) == IF BitAnd(n, 8) > 0 THEN n - 16 ELSE n

\* the shift stage
BrrShift(header, sample) ==
  Bind(header \div 16, LAMBDA sh :
      CASE sh = 0         -> Shr(sample, 1)
        [] sh \in 1..12   -> I16(Shl(sample, sh - 1))
        [] sh \in 13..15  -> I16(Shl(Shr(sample, 3), 11)))

\* the filter stage, before clamping
BrrFilter(header, sample, old, older) ==
  Bind(BitAnd(header, 12), LAMBDA mode :
      CASE mode = 0  -> sample
        [] mode = 4  -> sample + old + Shr(-old, 4)
        [] mode = 8  -> sample + old * 2 + Shr(-3 * old, 5) - older + Shr(older, 4)
        [] mode = 12 -> sample + old * 2 + Shr(-13 * old, 6) - older + Shr(older * 3, 4))

\* a decoder that stores the clamped value as it is
BrrFoldNone(sample) == sample

\* the fold into 15 bits that follows the clamp
BrrFold(sample) ==
  IF sample > 16383 THEN -32768 + sample
  ELSE IF sample < -16384 THEN sample + 32768
  ELSE sample

\* a decoder that clamps to 16 bits and leaves out the fold
BrrSampleUnfolded(header, nib, old, older) ==
  Clamp(BrrFilter(header, BrrShift(header, Nibble(nib)), old, older), -32768, 32767)

\* Spc700::sound_cycle, one nibble of a block
BrrSample(header, nib, old, older) ==
  BrrFold(Clamp(BrrFilter(header, BrrShift(header, Nibble(nib)), old, older),
                -32768, 32767))

\* the 16 nibbles of the block whose data bytes start at addr
RECURSIVE BrrDecode(_, _, _, _, _)
BrrDecode(mem, header, addr, buf, n) ==
  IF n = 16 THEN buf
  ELSE Bind(MemGet(mem, U16(addr + n \div 2)), LAMBDA byte :
           Bind(IF n % 2 = 0 THEN byte \div 16 ELSE byte % 16, LAMBDA nib :
           BrrDecode(mem, header, addr,
                     [buf EXCEPT ![n + 3] = BrrSample(header, nib, buf[n + 2], buf[n + 1])],
                     n + 1)))

\* a block taken for 8 bytes long: the header is not counted
BrrAdvanceEightBytes(mem, ch0) ==
  Bind(IF ch0.end_bit
             THEN Bind([ch0 EXCEPT !.data_addr =
                               MemGet(mem, U16(ch0.dir_addr + 2))
                               + 256 * MemGet(mem, U16(ch0.dir_addr + 3))], LAMBDA c :
                      IF ~c.loop_bit THEN ChannelReset(c) ELSE c)
             ELSE ch0, LAMBDA ch1 :
      Bind([k \in 0..(DECODE_BUFFER_SIZE - 1) |->
                   IF k < 3 THEN ch1.decode_buffer[DECODE_BUFFER_SIZE - 3 + k]
                   ELSE ch1.decode_buffer[k]], LAMBDA hist3 :
      Bind(MemGet(mem, ch1.data_addr), LAMBDA header :
      [ch1 EXCEPT
         !.end_bit       = BitAnd(header, 1) > 0,
         !.loop_bit      = BitAnd(header, 2) > 0,
         !.data_addr     = U16(ch1.data_addr + 8),
         !.decode_buffer = BrrDecode(mem, header, U16(ch1.data_addr + 1), hist3, 0)])))

\* Spc700::sound_cycle, what a pitch counter overflow does to a voice
BrrAdvance(mem, ch0) ==
  Bind(IF ch0.end_bit
             THEN Bind([ch0 EXCEPT !.data_addr =
                               MemGet(mem, U16(ch0.dir_addr + 2))
                               + 256 * MemGet(mem, U16(ch0.dir_addr + 3))], LAMBDA c :
                      IF ~c.loop_bit THEN ChannelReset(c) ELSE c)
             ELSE ch0, LAMBDA ch1 :
      Bind([k \in 0..(DECODE_BUFFER_SIZE - 1) |->
                   IF k < 3 THEN ch1.decode_buffer[DECODE_BUFFER_SIZE - 3 + k]
                   ELSE ch1.decode_buffer[k]], LAMBDA hist3 :
      Bind(MemGet(mem, ch1.data_addr), LAMBDA header :
      [ch1 EXCEPT
         !.end_bit       = BitAnd(header, 1) > 0,
         !.loop_bit      = BitAnd(header, 2) > 0,
         !.data_addr     = U16(ch1.data_addr + 9),
         !.decode_buffer = BrrDecode(mem, header, U16(ch1.data_addr + 1), hist3, 0)])))

\* Spc700::sound_cycle, Gaussian interpolation of a voice
Interpolate(ch) ==
  Bind(BitAnd(Shr(ch.pitch_counter, 4), 255), LAMBDA ii :
      Bind(Shr(ch.pitch_counter, 12), LAMBDA bi :
      Bind(Shr(GaussAt(255 - ii) * ch.decode_buffer[bi], 10), LAMBDA s1 :
      Bind(s1 + Shr(GaussAt(511 - ii) * ch.decode_buffer[bi + 1], 10), LAMBDA s2 :
      Bind(s2 + Shr(GaussAt(256 + ii) * ch.decode_buffer[bi + 2], 10), LAMBDA s3 :
      Bind(I16(s3) + Shr(GaussAt(ii) * ch.decode_buffer[bi + 3], 10), LAMBDA s4 :
      Shr(Clamp(s4, -32768, 32767), 1)))))))

-----------------------------------------------------------------------------
(* The sample cycle                                                        *)

\* key registers that every sample cycle applies
KeysAppliedAlways(dispatch_counter) == TRUE

\* Spc700::sound_cycle: the key-on and key-off masks of this cycle
KeysApplied(dispatch_counter) == BitAnd(dispatch_counter, 63) > 0

\* a key-on mask that is never taken from the register
FadeInMaskEmpty(s) == 0

FadeInMask(s) == IF KeysApplied(s.dispatch_counter) THEN s.dsp.fade_in ELSE 0

FadeOutMask(s) == IF KeysApplied(s.dispatch_counter) THEN s.dsp.fade_out ELSE 0

\* Spc700::sound_cycle: key-off and key-on of voice i
KeyOnOff(mem, ch, i, fade_in, fade_out) ==
  IF Bit(fade_out, i) = 1
  THEN [ch EXCEPT !.period = Release]
  ELSE IF Bit(fade_in, i) = 1
       THEN [ch EXCEPT
               !.data_addr     = MemGet(mem, ch.dir_addr)
                                 + 256 * MemGet(mem, U16(ch.dir_addr + 1)),
               !.loop_bit      = FALSE,
               !.end_bit       = FALSE,
               !.gain          = 0,
               !.decode_buffer = [k \in 0..(DECODE_BUFFER_SIZE - 1) |-> 0],
               !.period        = IF BitAnd(ch.adsr[0], 128) > 0 THEN Attack ELSE Gain]
       ELSE ch

\* Spc700::sound_cycle: the pitch step of voice i
PitchStep(pitch_modulation, ch, i, last_sample) ==
  IF Bit(pitch_modulation, i) = 1 /\ i # 0
  THEN U16(Shr(ch.pitch * (Shr(last_sample, 4) + 1024), 10))
  ELSE ch.pitch

\* Spc700::sound_cycle: the body of the loop over the voices, for voice i
VoiceStep(s, ch0, i, fade_in, fade_out, last_sample) ==
  Bind(KeyOnOff(s.mem, ch0, i, fade_in, fade_out), LAMBDA ch1 :
      Bind(ch1.pitch_counter + PitchStep(s.dsp.pitch_modulation, ch1, i, last_sample), LAMBDA sum :
      Bind([ch1 EXCEPT !.pitch_counter = U16(sum)], LAMBDA ch2 :
      Bind(IF sum > 65535 THEN BrrAdvance(s.mem, ch2) ELSE ch2, LAMBDA ch3 :
      Bind(Interpolate(ch3), LAMBDA interp :
      Bind(EnvelopeStep(ch3), LAMBDA env :
      Bind(env.ch, LAMBDA ch4 :
      Bind(I16(Shr(interp * ch4.gain, 11)), LAMBDA sample :
      Bind(IF env.fault # "none" THEN env.fault
                ELSE IF s.overflow_checks /\ ~(ch4.gain < 2048) THEN "DebugAssertGain"
                ELSE "none", LAMBDA fault :
      [ch     |-> IF fault # "none" THEN ch4
                  ELSE [ch4 EXCEPT !.last_sample = sample,
                                   !.vx_env = U8(Shr(ch4.gain, 4)),
                                   !.vx_out = U8(Shr(sample, 7))],
       sample |-> sample,
       fault  |-> fault])))))))))

\* Spc700::sound_cycle: the loop over the voices, from voice i on
RECURSIVE VoiceLoop(_, _, _, _, _, _, _)
VoiceLoop(s, channels, i, fade_in, fade_out, last_sample, result) ==
  IF i = 8
  THEN [channels |-> channels, result |-> result, fault |-> "none"]
  ELSE Bind(VoiceStep(s, channels[i], i, fade_in, fade_out, last_sample), LAMBDA v :
           Bind([channels EXCEPT ![i] = v.ch], LAMBDA cs :
           IF v.fault # "none"
           THEN [channels |-> cs, result |-> result, fault |-> v.fault]
           ELSE VoiceLoop(s, cs, i + 1, fade_in, fade_out, v.sample,
                          SaturatingAdd32(result,
                             StereoShr(StereoMul(StereoNew(v.sample), v.ch.volume), 6)))))

\* Spc700::sound_cycle: the 8-tap FIR filter over the ring buffer
RECURSIVE FirSum(_, _, _, _, _)
FirSum(fir_buffer, index, channels, i, result) ==
  IF i = 8 THEN result
  ELSE Bind(fir_buffer[BitAnd(index + i + 1, 7)], LAMBDA fir_value :
           Bind(StereoAdd(result,
                           StereoShr(StereoScale(fir_value, channels[i].fir_coefficient), 6)), LAMBDA r1 :
           Bind(IF i = 6 THEN Clip16(r1) ELSE r1, LAMBDA r2 :
           FirSum(fir_buffer, index, channels, i + 1, r2))))

\* Spc700::sound_cycle: the sample written back to the echo buffer
RECURSIVE EchoInput(_, _, _, _)
EchoInput(dsp, channels, i, acc) ==
  IF i = 8 THEN acc
  ELSE EchoInput(dsp, channels, i + 1,
                 IF Bit(dsp.echo, i) = 1
                 THEN SaturatingAdd32(acc,
                         StereoShr(StereoScale(channels[i].volume, channels[i].last_sample), 6))
                 ELSE acc)

\* an echo write-back that does not look at flags bit 5
EchoWriteAlways(s, echo_addr, filtered) ==
  Bind(EchoInput(s.dsp, s.dsp.channels, 0, StereoNew(0)), LAMBDA e1 :
      Bind(SaturatingAdd32(e1, StereoShr(StereoScale(filtered, s.dsp.echo_feedback), 7)), LAMBDA e2 :
      Write16Norom(Write16Norom(s, echo_addr, BitAnd(U16(e2.l), 65534)),
                   U16(echo_addr + 2), BitAnd(U16(e2.r), 65534))))

\* Spc700::sound_cycle: echo write-back, unless flags bit 5 forbids it
EchoWrite(s, echo_addr, filtered) ==
  IF BitAnd(s.dsp.flags, 32) = 0
  THEN Bind(EchoInput(s.dsp, s.dsp.channels, 0, StereoNew(0)), LAMBDA e1 :
           Bind(SaturatingAdd32(e1, StereoShr(StereoScale(filtered, s.dsp.echo_feedback), 7)), LAMBDA e2 :
           Bind(BitAnd(U16(e2.l), 65534), LAMBDA l :
           Bind(BitAnd(U16(e2.r), 65534), LAMBDA r :
           Write16Norom(Write16Norom(s, echo_addr, l), U16(echo_addr + 2), r)))))
  ELSE s

\* a sink that is handed the sample whatever the flags say
EmittedLoud(flags, sample) == sample

\* Spc700::sound_cycle: the sample handed to the sink (zero when muted)
Emitted(flags, sample) == IF BitAnd(flags, 64) > 0 THEN StereoNew(0) ELSE sample

\* an echo countdown that starts again without the offset going back to 0
SoundCycleMixKeepsOffset(s, voices_sum) ==
  Bind(Clamp16(StereoShr(StereoMul(voices_sum, s.dsp.master_volume), 7)), LAMBDA sample0 :
      Bind(U16(s.dsp.echo_data_addr + s.dsp.echo_buffer_offset), LAMBDA echo_addr :
      Bind(s.dsp.echo_buffer_offset + 4, LAMBDA offset :
      Bind([s.dsp.fir_buffer EXCEPT ![s.dsp.fir_buffer_index] =
                      StereoShr(StereoNew2(I16(Read16Norom(s, echo_addr)),
                                           I16(Read16Norom(s, U16(echo_addr + 2)))), 1)], LAMBDA fir :
      Bind(Clamp16(FirSum(fir, s.dsp.fir_buffer_index, s.dsp.channels, 0,
                                  StereoNew(0))), LAMBDA filtered :
      Bind(SaturatingAdd32(sample0,
                      StereoShr(StereoMul(filtered, s.dsp.echo_volume), 7)), LAMBDA sample1 :
      Bind([s EXCEPT !.dsp.echo_buffer_offset = U16(offset),
                             !.dsp.fir_buffer = fir,
                             !.dsp.fir_buffer_index = BitAnd(s.dsp.fir_buffer_index + 1, 7)], LAMBDA s1 :
      Bind(EchoWrite(s1, echo_addr, filtered), LAMBDA s2 :
      Bind(U16(s2.dsp.echo_index - 1), LAMBDA index :
      Bind(IF index = 0
                   THEN [s2 EXCEPT !.dsp.echo_index = s2.dsp.echo_delay]
                   ELSE [s2 EXCEPT !.dsp.echo_index = index], LAMBDA s3 :
      IF s.overflow_checks /\ (offset > 65535 \/ s.dsp.echo_index = 0)
      THEN Panic(s, "ArithmeticOverflow")
      ELSE [s3 EXCEPT !.backend = Append(s3.backend, Emitted(s3.dsp.flags, sample1))]))))))))))

\* Spc700::sound_cycle: everything after the loop over the voices
SoundCycleMix(s, voices_sum) ==
  Bind(Clamp16(StereoShr(StereoMul(voices_sum, s.dsp.master_volume), 7)), LAMBDA sample0 :
      Bind(U16(s.dsp.echo_data_addr + s.dsp.echo_buffer_offset), LAMBDA echo_addr :
      Bind(s.dsp.echo_buffer_offset + 4, LAMBDA offset :
      Bind([s.dsp.fir_buffer EXCEPT ![s.dsp.fir_buffer_index] =
                      StereoShr(StereoNew2(I16(Read16Norom(s, echo_addr)),
                                           I16(Read16Norom(s, U16(echo_addr + 2)))), 1)], LAMBDA fir :
      Bind(Clamp16(FirSum(fir, s.dsp.fir_buffer_index, s.dsp.channels, 0,
                                  StereoNew(0))), LAMBDA filtered :
      Bind(SaturatingAdd32(sample0,
                      StereoShr(StereoMul(filtered, s.dsp.echo_volume), 7)), LAMBDA sample1 :
      Bind([s EXCEPT !.dsp.echo_buffer_offset = U16(offset),
                             !.dsp.fir_buffer = fir,
                             !.dsp.fir_buffer_index = BitAnd(s.dsp.fir_buffer_index + 1, 7)], LAMBDA s1 :
      Bind(EchoWrite(s1, echo_addr, filtered), LAMBDA s2 :
      Bind(U16(s2.dsp.echo_index - 1), LAMBDA index :
      Bind(IF index = 0
                   THEN [s2 EXCEPT !.dsp.echo_index = s2.dsp.echo_delay,
                                   !.dsp.echo_buffer_offset = 0]
                   ELSE [s2 EXCEPT !.dsp.echo_index = index], LAMBDA s3 :
      IF s.overflow_checks /\ (offset > 65535 \/ s.dsp.echo_index = 0)
      THEN Panic(s, "ArithmeticOverflow")
      ELSE [s3 EXCEPT !.backend = Append(s3.backend, Emitted(s3.dsp.flags, sample1))]))))))))))

\* Spc700::sound_cycle
SoundCycle(s) ==
  Bind(FadeInMask(s), LAMBDA fade_in :
      Bind(FadeOutMask(s), LAMBDA fade_out :
      Bind(IF KeysApplied(s.dispatch_counter)
            THEN [s EXCEPT !.dsp.fade_in = BitAnd(s.dsp.fade_in, s.dsp.fade_out)]
            ELSE s, LAMBDA s1 :
      Bind(IF BitAnd(s1.dsp.flags, 128) > 0
            THEN [k \in 0..7 |-> ChannelReset(s1.dsp.channels[k])]
            ELSE s1.dsp.channels, LAMBDA cs :
      Bind(VoiceLoop(s1, cs, 0, fade_in, fade_out, 0, StereoNew(0)), LAMBDA vl :
      Bind([s1 EXCEPT !.dsp.channels = vl.channels], LAMBDA s2 :
      IF ~Running(s) THEN s
      ELSE IF vl.fault # "none" THEN Panic(s2, vl.fault)
      ELSE SoundCycleMix(s2, vl.result)))))))

-----------------------------------------------------------------------------
(* Timers and the scheduler                                                *)

\* a counter that stops at 15
CounterStepSaturating(c) == Min(c + 1, 15)

\* Spc700::update_timer: the step of the 4-bit output counter
CounterStep(c) == BitAnd(U8(c + 1), 15)

\* Spc700::update_timer
UpdateTimer(s, i) ==
  IF ~Running(s) THEN s
  ELSE Bind([s EXCEPT !.ticked = Append(s.ticked, i)], LAMBDA t :
           Bind(U8(s.timers[i] + 1), LAMBDA tk :
           IF Bit(s.timer_enable, i) = 1
           THEN IF tk = s.timer_max[i]
                THEN [t EXCEPT !.timers[i] = 0,
                               !.counters[i] = CounterStep(s.counters[i])]
                ELSE [t EXCEPT !.timers[i] = tk]
           ELSE t))

\* Spc700::tick
Tick(s, n) ==
  Bind(CyclesAdd(s.master_cycles, CyclesFrom(n * s.timing_proportion[2])), LAMBDA r :
      IF r.carry /\ s.overflow_checks
      THEN Panic(s, "ArithmeticOverflow")
      ELSE [s EXCEPT !.master_cycles = r.sum])

\* Spc700::refresh: the number of run_cycle calls it makes
RefreshCycles(s) == CyclesDivRem(s.master_cycles, s.timing_proportion[1]).quot

\* Spc700::refresh: what it leaves in the accumulator
RefreshRemainder(s) ==
  CyclesFrom(CyclesDivRem(s.master_cycles, s.timing_proportion[1]).rem)

-----------------------------------------------------------------------------
(* Arithmetic of the instruction set                                       *)

\* an Overflow flag that looks at the result's sign against a alone
AdcOverflowOneOperand(a, b, res) == BitAnd(a, 128) # BitAnd(res, 128)

\* Spc700::adc: the Overflow flag
AdcOverflow(a, b, res) ==
  (BitAnd(a, 128) = BitAnd(b, 128)) /\ (BitAnd(b, 128) # BitAnd(res, 128))

\* Spc700::adc: the Half-Carry flag
AdcHalfCarry(a, b, c) == (BitAnd(a, 15) + BitAnd(b, 15) + c) > 15

\* Spc700::adc
Adc(s, a, b) ==
  Bind(BitAnd(s.status, CARRY), LAMBDA c :
      Bind(U8(a + b + c), LAMBDA res :
      Bind(SetStatus(s, AdcOverflow(a, b, res), OVERFLOW), LAMBDA s1 :
      Bind(SetStatus(s1, AdcHalfCarry(a, b, c), HALF_CARRY), LAMBDA s2 :
      Bind(SetStatus(s2, a + b + c > 255, CARRY), LAMBDA s3 :
      Ret(UpdateNz8(s3, res), res))))))

\* Spc700::add16
Add16(s, a, b) ==
  Bind(U16(a + b), LAMBDA res :
      Bind(SetStatus(s, (BitAnd(a, 32768) = BitAnd(b, 32768))
                          /\ (BitAnd(b, 32768) # BitAnd(res, 32768)), OVERFLOW), LAMBDA s1 :
      Bind(SetStatus(s1, (BitAnd(a, 4095) + BitAnd(b, 4095)) > 4094, HALF_CARRY), LAMBDA s2 :
      Bind(SetStatus(s2, a + b > 65535, CARRY), LAMBDA s3 :
      Ret(UpdateNz16(s3, res), res)))))

\* Spc700::adc16
Adc16(s, a, b) ==
  Bind(BitAnd(s.status, CARRY), LAMBDA c :
      Bind(U16(a + b + c), LAMBDA res :
      Bind(SetStatus(s, (BitAnd(a, 32768) = BitAnd(b, 32768))
                          /\ (BitAnd(b, 32768) # BitAnd(res, 32768)), OVERFLOW), LAMBDA s1 :
      Bind(SetStatus(s1, (BitAnd(a, 4095) + BitAnd(b, 4095) + c) > 4095, HALF_CARRY), LAMBDA s2 :
      Bind(SetStatus(s2, a + b + c > 65535, CARRY), LAMBDA s3 :
      Ret(UpdateNz16(s3, res), res))))))

-----------------------------------------------------------------------------
(* Operand addressing of dispatch_instruction.  An operand is [s, val]:    *)
(* the state after its bytes were fetched and the address (A...) or the    *)
(* value (V) of the operand.                                               *)

ADp(s) == Bind(Load(s), LAMBDA l :    Ret(l.s, GetSmall(l.s, l.val)))

ADpX(s) == Bind(Load(s), LAMBDA l :    Ret(l.s, GetSmall(l.s, U8(l.val + l.s.x))))

ADpY(s) == Bind(Load(s), LAMBDA l :    Ret(l.s, GetSmall(l.s, U8(l.val + l.s.y))))

AAbs(s) == Load16(s)

AAbsX(s) == Bind(Load16(s), LAMBDA l :    Ret(l.s, U16(l.val + l.s.x)))

AAbsY(s) == Bind(Load16(s), LAMBDA l :    Ret(l.s, U16(l.val + l.s.y)))

AX(s) == Ret(s, GetSmall(s, s.x))

AIndX(s) == Bind(Load(s), LAMBDA l :    Read16Small(l.s, U8(l.val + l.s.x)))

AIndY(s) ==
  Bind(Load(s), LAMBDA l :
      Bind(Read16Small(l.s, l.val), LAMBDA q :
      Ret(q.s, U16(q.val + q.s.y))))

\* the 13-bit address and 3-bit index of the bit instructions
ABit(s) == Load16(s)

V(r) == Read(r.s, r.val)

St(r, v) == Write(r.s, r.val, v)

OrA(r) == Bind(BitOr(r.s.a, r.val), LAMBDA v :    UpdateNz8(SetA(r.s, v), v))

AndA(r) == Bind(BitAnd(r.s.a, r.val), LAMBDA v :    UpdateNz8(SetA(r.s, v), v))

EorA(r) == Bind(BitXor(r.s.a, r.val), LAMBDA v :    UpdateNz8(SetA(r.s, v), v))

MovA(r) == UpdateNz8(SetA(r.s, r.val), r.val)

MovX(r) == UpdateNz8(SetX(r.s, r.val), r.val)

MovY(r) == UpdateNz8(SetY(r.s, r.val), r.val)

AdcA(r) == Bind(Adc(r.s, r.s.a, r.val), LAMBDA q :    SetA(q.s, q.val))

SbcA(r) == Bind(Adc(r.s, r.s.a, Not8(r.val)), LAMBDA q :    SetA(q.s, q.val))

AslAt(r) ==
  Bind(V(r), LAMBDA v :
      Bind(U8(v.val * 2), LAMBDA nv :
      UpdateNz8(Write(SetStatus(v.s, v.val >= 128, CARRY), r.val, nv), nv)))

LsrAt(r) ==
  Bind(V(r), LAMBDA v :
      Bind(v.val \div 2, LAMBDA nv :
      UpdateNz8(Write(SetStatus(v.s, BitAnd(v.val, 1) > 0, CARRY), r.val, nv), nv)))

RolAt(r) ==
  Bind(V(r), LAMBDA v :
      Bind(BitOr(U8(v.val * 2), BitAnd(v.s.status, CARRY)), LAMBDA nv :
      UpdateNz8(Write(SetStatus(v.s, v.val >= 128, CARRY), r.val, nv), nv)))

RorAt(r) ==
  Bind(V(r), LAMBDA v :
      Bind(BitOr(v.val \div 2, Shl(BitAnd(v.s.status, CARRY), 7)), LAMBDA nv :
      Bind(SetStatusReg(v.s, BitOr(BitAnd(v.s.status, 254), BitAnd(v.val, CARRY))), LAMBDA s1 :
      UpdateNz8(Write(s1, r.val, nv), nv))))

IncAt(r) == Bind(V(r), LAMBDA v : Bind(U8(v.val + 1), LAMBDA nv :    UpdateNz8(Write(v.s, r.val, nv), nv)))

DecAt(r) == Bind(V(r), LAMBDA v : Bind(U8(v.val - 1), LAMBDA nv :    UpdateNz8(Write(v.s, r.val, nv), nv)))

\* the conditional branches: fetch the offset, then Spc700::branch_rel
Br(s, cond, cycles) == Bind(Load(s), LAMBDA l :    BranchRel(l.s, l.val, cond, cycles))

\* the carry-bit instructions OR1, EOR1, MOV1: the addressed bit
MemBit(r) ==
  Bind(Read(r.s, BitAnd(r.val, 8191)), LAMBDA v :
      Ret(v.s, BitAnd(Shr(v.val, Shr(r.val, 13)), CARRY)))

MemBitNot(r) ==
  Bind(Read(r.s, BitAnd(r.val, 8191)), LAMBDA v :
      Ret(v.s, BitAnd(Shr(Not8(v.val), Shr(r.val, 13)), CARRY)))

\* DIV with a zero quotient for X = 0
DivByZeroGivesZero(s) ==
  Bind(Ya(s), LAMBDA ya :
      Bind(IF s.x = 0 THEN 0 ELSE ya \div s.x, LAMBDA rdiv :
      Bind(IF s.x = 0 THEN s.a ELSE U8(ya % s.x), LAMBDA rmod :
      Bind(SetStatus(s, rdiv > 255, OVERFLOW), LAMBDA s1 :
      Bind(SetStatus(s1, BitAnd(s.x, 15) <= BitAnd(s.y, 15), HALF_CARRY), LAMBDA s2 :
      Bind(SetY(SetA(s2, BitAnd(rdiv, 255)), rmod), LAMBDA s3 :
      UpdateNz8(s3, s3.a)))))))

\* DIV
Div(s) ==
  Bind(Ya(s), LAMBDA ya :
      Bind(IF s.x = 0 THEN 65535 ELSE ya \div s.x, LAMBDA rdiv :
      Bind(IF s.x = 0 THEN s.a ELSE U8(ya % s.x), LAMBDA rmod :
      Bind(SetStatus(s, rdiv > 255, OVERFLOW), LAMBDA s1 :
      Bind(SetStatus(s1, BitAnd(s.x, 15) <= BitAnd(s.y, 15), HALF_CARRY), LAMBDA s2 :
      Bind(SetY(SetA(s2, BitAnd(rdiv, 255)), rmod), LAMBDA s3 :
      UpdateNz8(s3, s3.a)))))))

-----------------------------------------------------------------------------
(* Spc700::dispatch_instruction, by opcode.  Each operator takes the state *)
(* after the opcode fetch and returns [s, val]: the state after the        *)
(* instruction and the cycles it costs.                                    *)

\* an opcode without a handler that is skipped as if it were NOP
UnimplementedSkipped(s, cycles) == Ret(s, cycles)

\* Spc700::dispatch_instruction, `_ => todo!(...)`
Unimplemented(s, cycles) == Ret(Panic(s, "UnimplementedInstruction"), cycles)

\* SET1, CLR1, BBS, BBC (opcodes x2 and x3)
ExecBitOps(s, opc, cycles) ==
  Bind(opc \div 32, LAMBDA n :
      CASE opc % 32 = 2 ->
             Bind(ADp(s), LAMBDA r : Bind(V(r), LAMBDA v :
                 Ret(Write(v.s, r.val, BitOr(v.val, Pow2(n))), cycles)))
        [] opc % 32 = 18 ->
             Bind(ADp(s), LAMBDA r : Bind(V(r), LAMBDA v :
                 Ret(Write(v.s, r.val, BitAnd(v.val, Not8(Pow2(n)))), cycles)))
        [] opc % 16 = 3 ->
             Bind(Load(s), LAMBDA l :
                 Bind(ReadSmall(l.s, l.val), LAMBDA v :
                 Bind(Load(v.s), LAMBDA rel :
                 BranchRel(rel.s, rel.val,
                           BitAnd(BitXor(Shr(v.val, n), opc \div 16), 1) = 1, cycles)))))

\* opcodes 0x00 - 0x3f
Exec0(s, opc, cycles) ==
  CASE opc = 0 (* 00 *) -> Ret(s, cycles)
    [] opc = 4 (* 04 *) -> Ret(OrA(V(ADp(s))), cycles)
    [] opc = 5 (* 05 *) -> Ret(OrA(V(AAbs(s))), cycles)
    [] opc = 6 (* 06 *) -> Ret(OrA(V(AX(s))), cycles)
    [] opc = 7 (* 07 *) -> Ret(OrA(V(AIndX(s))), cycles)
    [] opc = 8 (* 08 *) -> Ret(OrA(Load(s)), cycles)
    [] opc = 9 (* 09 *) ->
         Bind(Load(s), LAMBDA src :
             Bind(ADp(src.s), LAMBDA dst :
             Bind(ReadSmall(dst.s, src.val), LAMBDA v1 :
             Bind(Read(v1.s, dst.val), LAMBDA v2 :
             Bind(BitOr(v1.val, v2.val), LAMBDA val :
             Ret(UpdateNz8(Write(v2.s, dst.val, val), val), cycles))))))
    [] opc = 10 (* 0A *) ->
         Bind(MemBit(ABit(s)), LAMBDA b :
             Ret(SetStatusReg(b.s, BitOr(b.s.status, b.val)), cycles))
    [] opc = 11 (* 0B *) -> Ret(AslAt(ADp(s)), cycles)
    [] opc = 12 (* 0C *) -> Ret(AslAt(AAbs(s)), cycles)
    [] opc = 13 (* 0D *) -> Ret(Push(s, s.status), cycles)
    [] opc = 14 (* 0E *) ->
         Bind(AAbs(s), LAMBDA r : Bind(V(r), LAMBDA v :
             Bind(UpdateNz8(v.s, U8(v.s.a + Not8(v.val) + 1)), LAMBDA s1 :
             Ret(Write(s1, r.val, BitOr(v.val, s1.a)), cycles))))
    [] opc = 16 (* 10 *) -> Br(s, BitAnd(s.status, SIGN) = 0, cycles)
    [] opc = 20 (* 14 *) -> Ret(OrA(V(ADpX(s))), cycles)
    [] opc = 21 (* 15 *) -> Ret(OrA(V(AAbsX(s))), cycles)
    [] opc = 22 (* 16 *) -> Ret(OrA(V(AAbsY(s))), cycles)
    [] opc = 23 (* 17 *) -> Ret(OrA(V(AIndY(s))), cycles)
    [] opc = 24 (* 18 *) ->
         Bind(Load(s), LAMBDA src :
             Bind(ADp(src.s), LAMBDA dst :
             Bind(V(dst), LAMBDA v :
             Bind(BitOr(src.val, v.val), LAMBDA val :
             Ret(UpdateNz8(Write(v.s, dst.val, val), val), cycles)))))
    [] opc = 25 (* 19 *) ->
         Bind(GetSmall(s, s.x), LAMBDA xa :
             Bind(Read(s, xa), LAMBDA v1 :
             Bind(ReadSmall(v1.s, v1.s.y), LAMBDA v2 :
             Bind(BitOr(v1.val, v2.val), LAMBDA res :
             Ret(UpdateNz8(Write(v2.s, xa, res), res), cycles)))))
    [] opc = 26 (* 1A *) ->
         Bind(ADp(s), LAMBDA r :
             Bind(Read16(r.s, r.val), LAMBDA v :
             Bind(U16(v.val - 1), LAMBDA val :
             Ret(UpdateNz16(Write16(v.s, r.val, val), val), cycles))))
    [] opc = 28 (* 1C *) ->
         Bind(SetStatus(s, s.a >= 128, CARRY), LAMBDA s1 :
             Bind(U8(s.a * 2), LAMBDA na :
             Ret(UpdateNz8(SetA(s1, na), na), cycles)))
    [] opc = 29 (* 1D *) -> Ret(MovX(Ret(s, U8(s.x - 1))), cycles)
    [] opc = 31 (* 1F *) ->
         Bind(AAbsX(s), LAMBDA r : Bind(Read16(r.s, r.val), LAMBDA v :
             Ret(SetPc(v.s, v.val), cycles)))
    [] opc = 32 (* 20 *) -> Ret(SetStatusReg(s, BitAnd(s.status, Not8(ZERO_PAGE))), cycles)
    [] opc = 36 (* 24 *) -> Ret(AndA(V(ADp(s))), cycles)
    [] opc = 37 (* 25 *) -> Ret(AndA(V(AAbs(s))), cycles)
    [] opc = 38 (* 26 *) -> Ret(AndA(V(AX(s))), cycles)
    [] opc = 40 (* 28 *) -> Ret(AndA(Load(s)), cycles)
    [] opc = 41 (* 29 *) ->
         Bind(Load(s), LAMBDA src :
             Bind(ADp(src.s), LAMBDA dst :
             Bind(ReadSmall(dst.s, src.val), LAMBDA v1 :
             Bind(Read(v1.s, dst.val), LAMBDA v2 :
             Bind(BitAnd(v1.val, v2.val), LAMBDA val :
             Ret(UpdateNz8(Write(v2.s, dst.val, val), val), cycles))))))
    [] opc = 42 (* 2A *) ->
         Bind(MemBitNot(ABit(s)), LAMBDA b :
             Ret(SetStatusReg(b.s, BitOr(b.s.status, b.val)), cycles))
    [] opc = 43 (* 2B *) -> Ret(RolAt(ADp(s)), cycles)
    [] opc = 45 (* 2D *) -> Ret(Push(s, s.a), cycles)
    [] opc = 46 (* 2E *) ->
         Bind(Load(s), LAMBDA addr :
             Bind(Load(addr.s), LAMBDA rel :
             Bind(ReadSmall(rel.s, addr.val), LAMBDA v :
             BranchRel(v.s, rel.val, v.val # v.s.a, cycles))))
    [] opc = 47 (* 2F *) -> Br(s, TRUE, cycles)
    [] opc = 48 (* 30 *) -> Br(s, BitAnd(s.status, SIGN) > 0, cycles)
    [] opc = 52 (* 34 *) -> Ret(AndA(V(ADpX(s))), cycles)
    [] opc = 53 (* 35 *) -> Ret(AndA(V(AAbsX(s))), cycles)
    [] opc = 54 (* 36 *) -> Ret(AndA(V(AAbsY(s))), cycles)
    [] opc = 56 (* 38 *) ->
         Bind(Load(s), LAMBDA imm :
             Bind(ADp(imm.s), LAMBDA dst :
             Bind(V(dst), LAMBDA v :
             Bind(BitAnd(v.val, imm.val), LAMBDA val :
             Ret(UpdateNz8(Write(v.s, dst.val, val), val), cycles)))))
    [] opc = 58 (* 3A *) ->
         Bind(ADp(s), LAMBDA r :
             Bind(Read16(r.s, r.val), LAMBDA v :
             Bind(U16(v.val + 1), LAMBDA val :
             Ret(UpdateNz16(Write16(v.s, r.val, val), val), cycles))))
    [] opc = 60 (* 3C *) ->
         Bind(BitOr(U8(s.a * 2), BitAnd(s.status, CARRY)), LAMBDA na :
             Bind(SetStatus(SetA(s, na), BitAnd(s.a, 128) > 0, CARRY), LAMBDA s1 :
             Ret(UpdateNz8(s1, na), cycles)))
    [] opc = 61 (* 3D *) -> Ret(MovX(Ret(s, U8(s.x + 1))), cycles)
    [] opc = 62 (* 3E *) -> Bind(V(ADp(s)), LAMBDA v :    Ret(Compare(v.s, v.s.x, v.val), cycles))
    [] opc = 63 (* 3F *) ->
         Bind(Load16(s), LAMBDA addr :
             Ret(SetPc(Push16(addr.s, addr.s.pc), addr.val), cycles))
    [] opc % 16 \in {2, 3} -> ExecBitOps(s, opc, cycles)
    [] OTHER -> Unimplemented(s, cycles)

\* opcodes 0x40 - 0x7f
Exec4(s, opc, cycles) ==
  CASE opc = 64 (* 40 *) -> Ret(SetStatusReg(s, BitOr(s.status, ZERO_PAGE)), cycles)
    [] opc = 68 (* 44 *) -> Ret(EorA(V(ADp(s))), cycles)
    [] opc = 69 (* 45 *) -> Ret(EorA(V(AAbs(s))), cycles)
    [] opc = 72 (* 48 *) -> Ret(EorA(Load(s)), cycles)
    [] opc = 75 (* 4B *) -> Ret(LsrAt(ADp(s)), cycles)
    [] opc = 76 (* 4C *) -> Ret(LsrAt(AAbs(s)), cycles)
    [] opc = 77 (* 4D *) -> Ret(Push(s, s.x), cycles)
    [] opc = 78 (* 4E *) ->
         Bind(AAbs(s), LAMBDA r : Bind(V(r), LAMBDA v :
             Bind(UpdateNz8(v.s, U8(v.s.a + Not8(v.val) + 1)), LAMBDA s1 :
             Ret(Write(s1, r.val, BitAnd(v.val, Not8(s1.a))), cycles))))
    [] opc = 84 (* 54 *) -> Ret(EorA(V(ADpX(s))), cycles)
    [] opc = 85 (* 55 *) -> Ret(EorA(V(AAbsX(s))), cycles)
    [] opc = 86 (* 56 *) -> Ret(EorA(V(AAbsY(s))), cycles)
    [] opc = 88 (* 58 *) ->
         Bind(Load(s), LAMBDA imm :
             Bind(ADp(imm.s), LAMBDA dst :
             Bind(V(dst), LAMBDA v :
             Bind(BitXor(v.val, imm.val), LAMBDA val :
             Ret(UpdateNz8(Write(v.s, dst.val, val), val), cycles)))))
    [] opc = 90 (* 5A *) ->
         Bind(Load(s), LAMBDA l :
             Bind(Read16Small(l.s, l.val), LAMBDA v :
             Bind(Ya(v.s) + Not16(v.val) + 1, LAMBDA sum :
             Ret(UpdateNz16(SetStatus(v.s, sum > 65535, CARRY), U16(sum)), cycles))))
    [] opc = 91 (* 5B *) -> Ret(LsrAt(ADpX(s)), cycles)
    [] opc = 92 (* 5C *) ->
         Bind(SetStatus(s, BitAnd(s.a, 1) > 0, CARRY), LAMBDA s1 :
             Bind(s.a \div 2, LAMBDA na :
             Ret(UpdateNz8(SetA(s1, na), na), cycles)))
    [] opc = 93 (* 5D *) -> Ret(MovX(Ret(s, s.a)), cycles)
    [] opc = 94 (* 5E *) -> Bind(V(AAbs(s)), LAMBDA v :    Ret(Compare(v.s, v.s.y, v.val), cycles))
    [] opc = 95 (* 5F *) -> Bind(Load16(s), LAMBDA l :    Ret(SetPc(l.s, l.val), cycles))
    [] opc = 96 (* 60 *) -> Ret(SetStatusReg(s, BitAnd(s.status, Not8(CARRY))), cycles)
    [] opc = 100 (* 64 *) -> Bind(V(ADp(s)), LAMBDA v :    Ret(Compare(v.s, v.s.a, v.val), cycles))
    [] opc = 101 (* 65 *) -> Bind(V(AAbs(s)), LAMBDA v :    Ret(Compare(v.s, v.s.a, v.val), cycles))
    [] opc = 102 (* 66 *) -> Bind(V(AX(s)), LAMBDA v :    Ret(Compare(v.s, v.s.a, v.val), cycles))
    [] opc = 104 (* 68 *) -> Bind(Load(s), LAMBDA v :    Ret(Compare(v.s, v.s.a, v.val), cycles))
    [] opc = 105 (* 69 *) ->
         Bind(V(ADp(s)), LAMBDA val1 :
             Bind(V(ADp(val1.s)), LAMBDA val2 :
             Ret(Compare(val2.s, val2.val, val1.val), cycles)))
    [] opc = 107 (* 6B *) -> Ret(RorAt(ADp(s)), cycles)
    [] opc = 109 (* 6D *) -> Ret(Push(s, s.y), cycles)
    [] opc = 110 (* 6E *) ->
         Bind(Load(s), LAMBDA addr :
             Bind(Load(addr.s), LAMBDA rel :
             Bind(GetSmall(rel.s, addr.val), LAMBDA a16 :
             Bind(Read(rel.s, a16), LAMBDA v :
             Bind(U8(v.val - 1), LAMBDA val :
             BranchRel(Write(v.s, a16, val), rel.val, val > 0, cycles))))))
    [] opc = 111 (* 6F *) -> Bind(Pull16(s), LAMBDA v :    Ret(SetPc(v.s, v.val), cycles))
    [] opc = 116 (* 74 *) -> Bind(V(ADpX(s)), LAMBDA v :    Ret(Compare(v.s, v.s.a, v.val), cycles))
    [] opc = 117 (* 75 *) -> Bind(V(AAbsX(s)), LAMBDA v :    Ret(Compare(v.s, v.s.a, v.val), cycles))
    [] opc = 118 (* 76 *) -> Bind(V(AAbsY(s)), LAMBDA v :    Ret(Compare(v.s, v.s.a, v.val), cycles))
    [] opc = 120 (* 78 *) ->
         Bind(Load(s), LAMBDA b :
             Bind(V(ADp(b.s)), LAMBDA v :
             Ret(Compare(v.s, v.val, b.val), cycles)))
    [] opc = 122 (* 7A *) ->
         Bind(Load(s), LAMBDA l :
             Bind(Read16Small(l.s, l.val), LAMBDA v :
             Bind(Add16(v.s, Ya(v.s), v.val), LAMBDA q :
             Ret(SetYa(q.s, q.val), cycles))))
    [] opc = 124 (* 7C *) ->
         Bind(BitOr(s.a \div 2, Shl(BitAnd(s.status, CARRY), 7)), LAMBDA na :
             Bind(SetStatusReg(s, BitOr(BitAnd(s.status, 254), BitAnd(s.a, CARRY))), LAMBDA s1 :
             Ret(UpdateNz8(SetA(s1, na), na), cycles)))
    [] opc = 125 (* 7D *) -> Ret(MovA(Ret(s, s.x)), cycles)
    [] opc = 126 (* 7E *) -> Bind(V(ADp(s)), LAMBDA v :    Ret(Compare(v.s, v.s.y, v.val), cycles))
    [] opc % 16 \in {2, 3} -> ExecBitOps(s, opc, cycles)
    [] OTHER -> Unimplemented(s, cycles)

\* opcodes 0x80 - 0xbf
Exec8(s, opc, cycles) ==
  CASE opc = 128 (* 80 *) -> Ret(SetStatusReg(s, BitOr(s.status, CARRY)), cycles)
    [] opc = 132 (* 84 *) -> Ret(AdcA(V(ADp(s))), cycles)
    [] opc = 133 (* 85 *) -> Ret(AdcA(V(AAbs(s))), cycles)
    [] opc = 135 (* 87 *) -> Ret(AdcA(V(AIndX(s))), cycles)
    [] opc = 136 (* 88 *) -> Ret(AdcA(Load(s)), cycles)
    [] opc = 137 (* 89 *) ->
         Bind(ADp(s), LAMBDA addr1 :
             Bind(ADp(addr1.s), LAMBDA addr2 :
             Bind(Read(addr2.s, addr2.val), LAMBDA v2 :
             Bind(Read(v2.s, addr1.val), LAMBDA v1 :
             Bind(Adc(v1.s, v2.val, v1.val), LAMBDA q :
             Ret(Write(q.s, addr2.val, q.val), cycles))))))
    [] opc = 138 (* 8A *) ->
         Bind(MemBit(ABit(s)), LAMBDA b :
             Ret(SetStatusReg(b.s, BitXor(b.s.status, b.val)), cycles))
    [] opc = 139 (* 8B *) -> Ret(DecAt(ADp(s)), cycles)
    [] opc = 140 (* 8C *) -> Ret(DecAt(AAbs(s)), cycles)
    [] opc = 141 (* 8D *) -> Ret(MovY(Load(s)), cycles)
    [] opc = 142 (* 8E *) -> Bind(Pull(s), LAMBDA v :    Ret(SetStatusReg(v.s, v.val), cycles))
    [] opc = 143 (* 8F *) ->
         Bind(Load(s), LAMBDA val :
             Bind(Load(val.s), LAMBDA addr :
             Ret(WriteSmall(addr.s, addr.val, val.val), cycles)))
    [] opc = 144 (* 90 *) -> Br(s, BitAnd(s.status, CARRY) = 0, cycles)
    [] opc = 148 (* 94 *) -> Ret(AdcA(V(ADpX(s))), cycles)
    [] opc = 149 (* 95 *) -> Ret(AdcA(V(AAbsX(s))), cycles)
    [] opc = 150 (* 96 *) -> Ret(AdcA(V(AAbsY(s))), cycles)
    [] opc = 151 (* 97 *) -> Ret(AdcA(V(AIndY(s))), cycles)
    [] opc = 152 (* 98 *) ->
         Bind(Load(s), LAMBDA val :
             Bind(ADp(val.s), LAMBDA dst :
             Bind(V(dst), LAMBDA v :
             Bind(Adc(v.s, v.val, val.val), LAMBDA q :
             Ret(Write(q.s, dst.val, q.val), cycles)))))
    [] opc = 154 (* 9A *) ->
         Bind(Load(s), LAMBDA l :
             Bind(Read16Small(l.s, l.val), LAMBDA v :
             Bind(SetStatusReg(v.s, BitOr(v.s.status, CARRY)), LAMBDA s1 :
             Bind(Adc16(s1, Ya(s1), Not16(v.val)), LAMBDA q :
             Ret(SetYa(q.s, q.val), cycles)))))
    [] opc = 155 (* 9B *) -> Ret(DecAt(ADpX(s)), cycles)
    [] opc = 156 (* 9C *) -> Ret(MovA(Ret(s, U8(s.a - 1))), cycles)
    [] opc = 157 (* 9D *) -> Ret(MovX(Ret(s, s.sp)), cycles)
    [] opc = 158 (* 9E *) -> Ret(Div(s), cycles)
    [] opc = 159 (* 9F *) ->
         Bind(BitOr(s.a \div 16, U8(s.a * 16)), LAMBDA na :
             Ret(MovA(Ret(s, na)), cycles))
    [] opc = 160 (* A0 *) -> Ret(SetStatusReg(s, BitOr(s.status, INTERRUPT_ENABLE)), cycles)
    [] opc = 164 (* A4 *) -> Ret(SbcA(V(ADp(s))), cycles)
    [] opc = 165 (* A5 *) -> Ret(SbcA(V(AAbs(s))), cycles)
    [] opc = 168 (* A8 *) -> Ret(SbcA(Load(s)), cycles)
    [] opc = 170 (* AA *) ->
         Bind(MemBit(ABit(s)), LAMBDA b :
             Ret(SetStatusReg(b.s, BitOr(BitAnd(b.s.status, Not8(CARRY)), b.val)), cycles))
    [] opc = 171 (* AB *) -> Ret(IncAt(ADp(s)), cycles)
    [] opc = 172 (* AC *) -> Ret(IncAt(AAbs(s)), cycles)
    [] opc = 173 (* AD *) -> Bind(Load(s), LAMBDA v :    Ret(Compare(v.s, v.s.y, v.val), cycles))
    [] opc = 174 (* AE *) -> Bind(Pull(s), LAMBDA v :    Ret(SetA(v.s, v.val), cycles))
    [] opc = 175 (* AF *) ->
         Bind(WriteSmall(s, s.x, s.a), LAMBDA w :
             Ret(SetX(w, U8(w.x + 1)), cycles))
    [] opc = 176 (* B0 *) -> Br(s, BitAnd(s.status, CARRY) > 0, cycles)
    [] opc = 180 (* B4 *) -> Ret(SbcA(V(ADpX(s))), cycles)
    [] opc = 181 (* B5 *) -> Ret(SbcA(V(AAbsX(s))), cycles)
    [] opc = 182 (* B6 *) -> Ret(SbcA(V(AAbsY(s))), cycles)
    [] opc = 186 (* BA *) ->
         Bind(Load(s), LAMBDA l :
             Bind(Read16Small(l.s, l.val), LAMBDA v :
             Ret(UpdateNz16(SetYa(v.s, v.val), v.val), cycles)))
    [] opc = 187 (* BB *) -> Ret(IncAt(ADpX(s)), cycles)
    [] opc = 188 (* BC *) -> Ret(MovA(Ret(s, U8(s.a + 1))), cycles)
    [] opc = 189 (* BD *) -> Ret(SetSp(s, s.x), cycles)
    [] opc = 191 (* BF *) ->
         Bind(ReadSmall(s, s.x), LAMBDA v :
             Bind(SetX(SetA(v.s, v.val), U8(v.s.x + 1)), LAMBDA s1 :
             Ret(UpdateNz8(s1, v.val), cycles)))
    [] opc % 16 \in {2, 3} -> ExecBitOps(s, opc, cycles)
    [] OTHER -> Unimplemented(s, cycles)

\* opcodes 0xc0 - 0xff
ExecC(s, opc, cycles) ==
  CASE opc = 192 (* C0 *) -> Ret(SetStatusReg(s, BitAnd(s.status, Not8(INTERRUPT_ENABLE))), cycles)
    [] opc = 196 (* C4 *) -> Bind(ADp(s), LAMBDA r :    Ret(St(r, r.s.a), cycles))
    [] opc = 197 (* C5 *) -> Bind(AAbs(s), LAMBDA r :    Ret(St(r, r.s.a), cycles))
    [] opc = 198 (* C6 *) -> Ret(WriteSmall(s, s.x, s.a), cycles)
    [] opc = 199 (* C7 *) -> Bind(AIndX(s), LAMBDA r :    Ret(St(r, r.s.a), cycles))
    [] opc = 200 (* C8 *) -> Bind(Load(s), LAMBDA v :    Ret(Compare(v.s, v.s.x, v.val), cycles))
    [] opc = 201 (* C9 *) -> Bind(AAbs(s), LAMBDA r :    Ret(St(r, r.s.x), cycles))
    [] opc = 203 (* CB *) -> Bind(ADp(s), LAMBDA r :    Ret(St(r, r.s.y), cycles))
    [] opc = 204 (* CC *) -> Bind(AAbs(s), LAMBDA r :    Ret(St(r, r.s.y), cycles))
    [] opc = 205 (* CD *) -> Ret(MovX(Load(s)), cycles)
    [] opc = 206 (* CE *) -> Bind(Pull(s), LAMBDA v :    Ret(SetX(v.s, v.val), cycles))
    [] opc = 207 (* CF *) ->
         Bind(SetYa(s, s.y * s.a), LAMBDA s1 :
             Ret(UpdateNz8(s1, s1.y), cycles))
    [] opc = 208 (* D0 *) -> Br(s, BitAnd(s.status, ZERO) = 0, cycles)
    [] opc = 212 (* D4 *) -> Bind(ADpX(s), LAMBDA r :    Ret(St(r, r.s.a), cycles))
    [] opc = 213 (* D5 *) -> Bind(AAbsX(s), LAMBDA r :    Ret(St(r, r.s.a), cycles))
    [] opc = 214 (* D6 *) -> Bind(AAbsY(s), LAMBDA r :    Ret(St(r, r.s.a), cycles))
    [] opc = 215 (* D7 *) -> Bind(AIndY(s), LAMBDA r :    Ret(St(r, r.s.a), cycles))
    [] opc = 216 (* D8 *) -> Bind(ADp(s), LAMBDA r :    Ret(St(r, r.s.x), cycles))
    [] opc = 218 (* DA *) ->
         Bind(Load(s), LAMBDA l :
             Ret(Write16Small(l.s, l.val, Ya(l.s)), cycles))
    [] opc = 219 (* DB *) -> Bind(ADpX(s), LAMBDA r :    Ret(St(r, r.s.y), cycles))
    [] opc = 220 (* DC *) -> Ret(MovY(Ret(s, U8(s.y - 1))), cycles)
    [] opc = 221 (* DD *) -> Ret(MovA(Ret(s, s.y)), cycles)
    [] opc = 222 (* DE *) ->
         Bind(V(ADpX(s)), LAMBDA v :
             Bind(Load(v.s), LAMBDA rel :
             BranchRel(rel.s, rel.val, rel.s.a # v.val, cycles)))
    [] opc = 224 (* E0 *) ->
         Ret(SetStatusReg(s, BitAnd(s.status, Not8(OVERFLOW + HALF_CARRY))), cycles)
    [] opc = 228 (* E4 *) -> Ret(MovA(V(ADp(s))), cycles)
    [] opc = 229 (* E5 *) -> Ret(MovA(V(AAbs(s))), cycles)
    [] opc = 230 (* E6 *) -> Ret(MovA(V(AX(s))), cycles)
    [] opc = 231 (* E7 *) -> Ret(MovA(V(AIndX(s))), cycles)
    [] opc = 232 (* E8 *) -> Ret(MovA(Load(s)), cycles)
    [] opc = 233 (* E9 *) -> Ret(MovX(V(AAbs(s))), cycles)
    [] opc = 234 (* EA *) ->
         Bind(Load16(s), LAMBDA imm :
             Bind(BitAnd(imm.val, 8191), LAMBDA addr :
             Bind(Read(imm.s, addr), LAMBDA v :
             Ret(Write(v.s, addr, BitXor(v.val, Pow2(Shr(imm.val, 13)))), cycles))))
    [] opc = 235 (* EB *) -> Ret(MovY(V(ADp(s))), cycles)
    [] opc = 236 (* EC *) -> Ret(MovY(V(AAbs(s))), cycles)
    [] opc = 237 (* ED *) -> Ret(SetStatusReg(s, BitXor(s.status, CARRY)), cycles)
    [] opc = 238 (* EE *) -> Bind(Pull(s), LAMBDA v :    Ret(SetY(v.s, v.val), cycles))
    [] opc = 240 (* F0 *) -> Br(s, BitAnd(s.status, ZERO) > 0, cycles)
    [] opc = 244 (* F4 *) -> Ret(MovA(V(ADpX(s))), cycles)
    [] opc = 245 (* F5 *) -> Ret(MovA(V(AAbsX(s))), cycles)
    [] opc = 246 (* F6 *) -> Ret(MovA(V(AAbsY(s))), cycles)
    [] opc = 247 (* F7 *) -> Ret(MovA(V(AIndY(s))), cycles)
    [] opc = 248 (* F8 *) -> Ret(MovX(V(ADp(s))), cycles)
    [] opc = 249 (* F9 *) -> Ret(MovX(V(ADpY(s))), cycles)
    [] opc = 250 (* FA *) ->
         Bind(V(ADp(s)), LAMBDA val1 :
             Bind(Load(val1.s), LAMBDA val2 :
             Ret(WriteSmall(val2.s, val2.val, val1.val), cycles)))
    [] opc = 251 (* FB *) -> Ret(MovY(V(ADpX(s))), cycles)
    [] opc = 252 (* FC *) -> Ret(MovY(Ret(s, U8(s.y + 1))), cycles)
    [] opc = 253 (* FD *) -> Ret(MovY(Ret(s, s.a)), cycles)
    [] opc = 254 (* FE *) ->
         Bind(U8(s.y - 1), LAMBDA ny :
             Bind(Load(SetY(s, ny)), LAMBDA rel :
             BranchRel(rel.s, rel.val, ny > 0, cycles)))
    [] opc % 16 \in {2, 3} -> ExecBitOps(s, opc, cycles)
    [] OTHER -> Unimplemented(s, cycles)

\* Spc700::dispatch_instruction: fetch the opcode, look up its cycles, execute
DispatchInstruction(s) ==
  Bind(Load(s), LAMBDA l :
      IF ~Running(l.s) THEN Ret(l.s, 0)
      ELSE CASE l.val < 64  -> Exec0(l.s, l.val, CyclesOf(l.val))
             [] l.val \in 64..127  -> Exec4(l.s, l.val, CyclesOf(l.val))
             [] l.val \in 128..191 -> Exec8(l.s, l.val, CyclesOf(l.val))
             [] OTHER              -> ExecC(l.s, l.val, CyclesOf(l.val)))

\* Spc700::run_cycle: `self.dispatch_counter & 0xf == 0`
FastTimerDue(dc) == BitAnd(dc, 15) = 0

\* a sample every 64 cycles
SampleDueEvery64(dc) == BitAnd(dc, 63) = 0

\* Spc700::run_cycle: `self.dispatch_counter & 0x1f == 0`
SampleDue(dc) == BitAnd(dc, 31) = 0

\* Spc700::run_cycle: `self.dispatch_counter & 0x7f == 0`
SlowTimersDue(dc) == BitAnd(dc, 127) = 0

\* Spc700::run_cycle: the sub-events that the dispatch counter schedules
SubEvents(s) ==
  Bind(s.dispatch_counter, LAMBDA dc :
      IF FastTimerDue(dc)
      THEN Bind(IF SampleDue(dc)
                     THEN Bind(SoundCycle(s), LAMBDA s2 :
                              IF SlowTimersDue(dc)
                              THEN UpdateTimer(UpdateTimer(s2, 0), 1)
                              ELSE s2)
                     ELSE s, LAMBDA s1 :
               UpdateTimer(s1, 2))
      ELSE s)

\* the dispatching cycle not counted as one of the instruction's
ReloadUncounted(c) == Max(c, 1) + 1

\* Spc700::run_cycle: `self.dispatch_instruction().max(1)`
Reload(c) == Max(c, 1)

\* Spc700::run_cycle: the instruction part
InstructionStep(s) ==
  Bind(IF s.cycles_ahead = 0
            THEN Bind(DispatchInstruction(s), LAMBDA d :
                     IF Running(d.s) THEN [d.s EXCEPT !.cycles_ahead = Reload(d.val)]
                     ELSE d.s)
            ELSE s, LAMBDA s1 :
      IF Running(s1) THEN [s1 EXCEPT !.cycles_ahead = s1.cycles_ahead - 1] ELSE s1)

\* Spc700::run_cycle
RunCycle(s) ==
  Bind(SubEvents(InstructionStep(s)), LAMBDA s1 :
      IF Running(s1)
      THEN [s1 EXCEPT !.dispatch_counter = U16(s1.dispatch_counter + 1)]
      ELSE s1)

-----------------------------------------------------------------------------
(* The host side: Device::access on the mailbox ports $2140-$2143          *)

\* Device::access: the banks whose low half carries address bus B
IsSystemBank(bank) == BitAnd(bank, 192) = 0 \/ BitAnd(bank, 192) = 128

\* Access::access_slice of ReadAccess<u8>, <u16>, <Addr24>: the bytes read,
\* low byte first; a range that leaves the slice panics
ReadSlice(slice, index, width) ==
  IF index + width > 4
  THEN [ok |-> FALSE, bytes |-> << >>]
  ELSE [ok |-> TRUE, bytes |-> [k \in 1..width |-> slice[index + k - 1]]]

\* Access::access_slice of WriteAccess<u8>, <u16>: bytes is the value in
\* little-endian order
WriteSlice(slice, index, bytes) ==
  IF index + Len(bytes) > 4
  THEN [ok |-> FALSE, slice |-> slice]
  ELSE [ok |-> TRUE,
        slice |-> [k \in 0..3 |->
                     IF k >= index /\ k < index + Len(bytes)
                     THEN bytes[k - index + 1] ELSE slice[k]]]

\* a host read served from the host's own direction
AccessReadInput(s, addr, width) ==
  Bind(ReadSlice(s.input, BitAnd(addr, 3), width), LAMBDA r :
      IF r.ok THEN Ret(s, r.bytes) ELSE Ret(Panic(s, "SliceIndex"), << >>))

\* Device::access, 0x2140..=0x2143, a read: it goes to spc.output
AccessRead(s, addr, width) ==
  Bind(ReadSlice(s.output, BitAnd(addr, 3), width), LAMBDA r :
      IF r.ok THEN Ret(s, r.bytes) ELSE Ret(Panic(s, "SliceIndex"), << >>))

\* Device::access, 0x2140..=0x2143, a write: it goes to spc.input
AccessWrite(s, addr, bytes) ==
  Bind(WriteSlice(s.input, BitAnd(addr, 3), bytes), LAMBDA w :
      IF w.ok THEN [s EXCEPT !.input = w.slice] ELSE Panic(s, "SliceIndex"))

\* ReadAccess<u8>, ReadAccess<u16>: u16::from_le_bytes of the bytes read
FromLeBytes(bytes) ==
  IF Len(bytes) = 1 THEN bytes[1] ELSE bytes[1] + 256 * bytes[2]

\* WriteAccess<u16>: u16::to_le_bytes
ToLeBytes(val, width) ==
  IF width = 1 THEN <<val % 256>> ELSE <<val % 256, (val \div 256) % 256>>

-----------------------------------------------------------------------------
(* The state machine.  `op` is the last call and its result:                *)
(*   kind       - which call ("host_read", "spc_write", "run_cycle", ...)   *)
(*   addr, val  - its address (or port, timer index, tick size) and the     *)
(*                value written or returned                                 *)
(*   width      - host_read, host_write: the bytes accessed                 *)
(*   dc         - run_cycle: the dispatch counter the cycle started with    *)
(*   dispatched - run_cycle: whether it dispatched an instruction           *)
(*   c          - run_cycle: the cycle count that dispatch returned         *)
(* `hist` holds what the properties need to remember of the past.           *)

Op(kind, addr, val) ==
  [kind |-> kind, addr |-> addr, val |-> val, width |-> 1,
   dc |-> 0, dispatched |-> FALSE, c |-> 0]

\* the single writes to $F3 that are counted
MaxRegWrites == 1

Hist0 ==
  [ hostwrote  |-> [k \in 0..3 |-> -1],    \* last byte the host wrote to input[k]
    f1         |-> [k \in 0..3 |-> "none"],\* the writes to $F1 since then: "none",
                                           \*   or all "kept" input[k], or one "cleared" it
    tick_calls |-> 0,                      \* tick() calls so far
    ticked     |-> 0,                      \* sum of all n given to tick()
    ticked_at_refresh |-> 0,               \* that sum when refresh() was last called
    refreshed  |-> FALSE,                  \* refresh() has been called
    ran        |-> 0,                      \* run_cycle calls so far
    instructions |-> 0,                    \* instructions dispatched so far
    since      |-> 0,                      \* run_cycle calls since the last dispatch, it included
    c          |-> -1,                     \* cycle count the last dispatch returned
    gap        |-> -1,                     \* run_cycle calls between the last two dispatches
    gap_c      |-> -1,                     \* cycle count returned by the earlier of the two
    watch      |-> 0,                      \* the timer the next two fields follow
    tticks     |-> 0,                      \* update_timer calls for it while enabled,
                                           \*   since it was switched on
    fresh      |-> FALSE,                  \* it was switched on and has stayed on since,
                                           \*   its period not written, its counter not read
    twin       |-> << >>,                  \* a second Spc700 object, once one is made
    dspw       |-> 0,                      \* single writes to $F3 so far, up to
                                           \*   MaxRegWrites
    samples    |-> 0,                      \* direct calls of sound_cycle so far
    period     |-> 0                       \* the count the echo countdown was last loaded
                                           \*   with; 0 at the start and once $7D was
                                           \*   written since
  ]

Idle == Running(spc) /\ todo = 0

\* refresh() would run no cycle
NothingOwed == RefreshCycles(spc) = 0

\* The object as constructed, in a build that wraps on integer overflow.
Init ==
  /\ spc = Spc700New
  /\ todo = 0
  /\ op = Op("none", 0, 0)
  /\ hist = Hist0

\* The host writes `val` (1 or 2 bytes wide) to port $2140 + port of a system bank.
HostWrite(bank, port, val, width) ==
  /\ Idle
  /\ IsSystemBank(bank)
  /\ LET bytes == ToLeBytes(val, width)
         s1    == AccessWrite(spc, 8512 + port, bytes)
         h1    == hist
     IN  /\ spc' = s1
         /\ op' = [Op("host_write", port, val) EXCEPT !.width = width]
         /\ hist' = IF Running(s1)
                    THEN [h1 EXCEPT
                            !.hostwrote = [k \in 0..3 |->
                               IF k >= port /\ k < port + width
                               THEN bytes[k - port + 1] ELSE @[k]],
                            !.f1 = [k \in 0..3 |->
                               IF k >= port /\ k < port + width THEN "none" ELSE @[k]]]
                    ELSE h1
  /\ UNCHANGED todo

\* The host reads 1 or 2 bytes from port $2140 + port of a system bank.
HostRead(bank, port, width) ==
  /\ Idle
  /\ IsSystemBank(bank)
  /\ LET r == AccessRead(spc, 8512 + port, width)
     IN  /\ spc' = r.s
         /\ op' = [Op("host_read", port, IF Running(r.s) THEN FromLeBytes(r.val) ELSE 0)
                     EXCEPT !.width = width]
  /\ hist' = hist
  /\ UNCHANGED todo

\* Spc700::read called with addr
SpcRead(addr) ==
  /\ Idle
  /\ LET r  == Read(spc, addr)
         h1 == hist
     IN  /\ spc' = r.s
         /\ op' = Op("spc_read", addr, r.val)
         /\ hist' = IF addr = 253 + hist.watch /\ Running(r.s)
                    THEN [h1 EXCEPT !.fresh = FALSE]
                    ELSE h1
  /\ UNCHANGED todo

\* Spc700::write called with addr and val
SpcWrite(addr, val) ==
  /\ Idle
  /\ LET s1 == Write(spc, addr, val)
         h1 == IF addr = 243 /\ hist.dspw < MaxRegWrites
               THEN [hist EXCEPT !.dspw = @ + 1] ELSE hist
         on == Bit(val, hist.watch) = 1 /\ Bit(spc.timer_enable, hist.watch) = 0
     IN  /\ spc' = s1
         /\ op' = Op("spc_write", addr, val)
         /\ hist' =
              IF ~Running(s1) THEN h1
              ELSE IF addr = 241
              THEN [h1 EXCEPT
                      !.f1 = [k \in 0..3 |->
                          IF hist.hostwrote[k] = -1 THEN @[k]
                          ELSE IF (k < 2 /\ Bit(val, 4) = 1) \/ (k >= 2 /\ Bit(val, 5) = 1)
                          THEN "cleared"
                          ELSE IF @[k] = "none" THEN "kept" ELSE @[k]],
                      !.tticks   = IF on THEN 0 ELSE @,
                      !.fresh    = IF on THEN TRUE ELSE @ /\ Bit(val, hist.watch) = 1]
              ELSE IF addr = 250 + hist.watch
              THEN [h1 EXCEPT !.fresh = FALSE]
              ELSE h1
  /\ UNCHANGED todo

\* Spc700::update_timer called with i
TimerTick(i) ==
  /\ Idle
  /\ LET s1 == UpdateTimer([spc EXCEPT !.ticked = << >>], i)
         h1 == hist
         en == Bit(spc.timer_enable, i) = 1
     IN  /\ spc' = s1
         /\ op' = Op("update_timer", i, 0)
         /\ hist' = IF en /\ i = hist.watch
                    THEN [h1 EXCEPT !.tticks = @ + 1]
                    ELSE h1
  /\ UNCHANGED todo

\* Spc700::tick called with n
TickCall(n) ==
  /\ Idle
  /\ spc' = Tick(spc, n)
  /\ op' = Op("tick", n, 0)
  /\ hist' = [hist EXCEPT !.tick_calls = @ + 1, !.ticked = @ + n]
  /\ UNCHANGED todo

\* Spc700::refresh, up to its loop: the division and the remainder
RefreshCall ==
  /\ Idle
  /\ spc' = [spc EXCEPT !.master_cycles = RefreshRemainder(spc)]
  /\ todo' = RefreshCycles(spc)
  /\ op' = Op("refresh", 0, RefreshCycles(spc))
  /\ hist' = [hist EXCEPT !.ticked_at_refresh = hist.ticked, !.refreshed = TRUE]

\* Spc700::refresh, one iteration of its loop: one whole run_cycle
RunCycleStep ==
  /\ Running(spc)
  /\ todo > 0
  /\ LET s0   == [spc EXCEPT !.backend = << >>, !.ticked = << >>]
         disp == spc.cycles_ahead = 0
         c    == IF disp THEN DispatchInstruction(s0).val ELSE 0
         s1   == RunCycle(s0)
         h1   == [hist EXCEPT !.ran = @ + 1]
     IN  /\ spc' = s1
         /\ op' = [Op("run_cycle", 0, 0) EXCEPT !.dc = spc.dispatch_counter,
                                                !.dispatched = disp, !.c = c]
         /\ hist' = IF disp
                    THEN [h1 EXCEPT !.instructions = @ + 1, !.since = 1, !.c = c,
                                    !.gap = hist.since, !.gap_c = hist.c]
                    ELSE [h1 EXCEPT !.since = @ + 1]
  /\ todo' = todo - 1

\* Spc700::reset called; op.val keeps the byte that $F0 held before the call
ResetCall ==
  /\ Idle
  /\ spc' = Reset(spc)
  /\ op' = Op("reset", 240, MemGet(spc.mem, 240))
  /\ hist' = hist
  /\ UNCHANGED todo

-----------------------------------------------------------------------------
(* The mailbox: the host and the SPC700 program call in any order.          *)

\* the bank the host addresses the ports through ($00-$3F and $80-$BF carry bus B)
HostBanks == {0}

\* what the host writes: a byte to any port, or the 16-bit word $BBAA to port
\* 0 (it covers ports 0 and 1) or to port 3 (it runs past the last port)
HostWrites ==
  {<<port, 170, 1>> : port \in 0..3} \cup {<<0, 48042, 2>>, <<3, 48042, 2>>}

\* what the SPC700 program writes: the control register with bit 4, bit 5 or
\* neither, and the four mailbox addresses
MailboxWrites ==
  {<<241, 16>>, <<241, 32>>, <<241, 0>>, <<244, 85>>, <<247, 85>>}

MailboxHostWrite ==
  \E bank \in HostBanks, w \in HostWrites : HostWrite(bank, w[1], w[2], w[3])

MailboxHostRead == \E bank \in HostBanks, port \in 0..3, w \in 1..2 : HostRead(bank, port, w)

MailboxSpcRead == \E addr \in 244..247 : SpcRead(addr)

MailboxSpcWrite == \E w \in MailboxWrites : SpcWrite(w[1], w[2])

Next == MailboxHostWrite \/ MailboxHostRead \/ MailboxSpcRead \/ MailboxSpcWrite

Spec == Init /\ [][Next]_vars

(* C1 as claimed: after the host writes b to input[i], an SPC700 read of     *)
(* $F4+i returns b whatever the program did in between, writes to $F1       *)
(* included, as long as the host has not rewritten input[i].                *)
C1_Original ==
  (op.kind = "spc_read" /\ op.addr \in 244..247 /\ Running(spc)
     /\ hist.hostwrote[op.addr - 244] # -1)
  => op.val = hist.hostwrote[op.addr - 244]

(* C1, amended: after the host writes b to input[i], an SPC700 read of      *)
(* $F4+i returns b as long as the host has not rewritten input[i] and the   *)
(* program has not written $F1 with bit 4 (i < 2) or bit 5 (i >= 2) set;    *)
(* after such a write it returns 0.  Other writes, to $F1 with the bit      *)
(* clear or to $F4-$F7, do not disturb it.                                  *)
C1_HostByteReadBack ==
  (op.kind = "spc_read" /\ op.addr \in 244..247 /\ Running(spc)
     /\ hist.hostwrote[op.addr - 244] # -1)
  => op.val = IF hist.f1[op.addr - 244] = "cleared"
              THEN 0 ELSE hist.hostwrote[op.addr - 244]

\* The program wrote $F1 (bit 5 clear) and $F7 after the host's write to port
\* 3, and then reads the host's byte at $F7.
C1_Witness ==
  /\ op.kind = "spc_read" /\ op.addr = 247 /\ op.val = 170
  /\ hist.hostwrote[3] = 170 /\ hist.f1[3] = "kept"
  /\ spc.output[3] = 85

(* C2: the mailbox directions never alias.  An SPC700 write to $F4+i        *)
(* changes output[i] and nothing else; an SPC700 read of $F4+i returns      *)
(* input[i]; a host read of port i returns output[i] (a 16-bit read,        *)
(* output[i] and output[i+1]); a host write to port i changes input[i]      *)
(* (a 16-bit write, input[i] and input[i+1]) and nothing else.              *)
C2_Step ==
  /\ (op'.kind = "spc_write" /\ op'.addr \in 244..247) =>
        /\ spc'.output = [spc.output EXCEPT ![op'.addr - 244] = op'.val]
        /\ spc' = [spc EXCEPT !.output = spc'.output]
  /\ (op'.kind = "spc_read" /\ op'.addr \in 244..247) =>
        /\ op'.val = spc.input[op'.addr - 244]
        /\ spc' = spc
  /\ (op'.kind = "host_read" /\ Running(spc')) =>
        /\ op'.val = IF op'.width = 1 THEN spc.output[op'.addr]
                     ELSE spc.output[op'.addr] + 256 * spc.output[op'.addr + 1]
        /\ spc' = spc
  /\ (op'.kind = "host_write" /\ Running(spc')) =>
        /\ spc'.input = [k \in 0..3 |->
               IF k = op'.addr THEN op'.val % 256
               ELSE IF k = op'.addr + 1 /\ op'.width = 2 THEN op'.val \div 256
               ELSE spc.input[k]]
        /\ spc' = [spc EXCEPT !.input = spc'.input]

C2_NoAliasing == [][C2_Step]_vars

\* The program reads the host's byte at $F4 although it has itself written
\* another byte to $F4, which the host can read at port 0.
C2_Witness ==
  /\ op.kind = "spc_read" /\ op.addr = 244 /\ op.val = 170
  /\ spc.output[0] = 85 /\ spc.input[0] = 170

-----------------------------------------------------------------------------
(* The boot ROM overlay: the program reads and writes $F0 and the top of    *)
(* the address space.                                                       *)

\* $F0, the last address below the overlay, and its first, second and last
OverlayAddrs == {240, 65471, 65472, 65473, 65535}

\* bit 7 clear and set; 205 is also the ROM byte at $FFC0
OverlayBytes == {0, 127, 128, 205}

RomSpcRead == \E addr \in OverlayAddrs : SpcRead(addr)

RomSpcWrite == \E addr \in OverlayAddrs, val \in OverlayBytes : SpcWrite(addr, val)

NextRom == RomSpcRead \/ RomSpcWrite

SpecRom == Init /\ [][NextRom]_vars

(* C3: an SPC700 read of a in $FFC0-$FFFF returns boot ROM byte a & $3F     *)
(* when bit 7 of RAM[$F0] is set and RAM[a] when it is clear; a write to a  *)
(* stores into RAM[a] whatever the overlay bit is, and changes nothing      *)
(* else, so the byte is read back once the overlay is off.                  *)
C3_Step ==
  /\ (op'.kind = "spc_read" /\ op'.addr \in 65472..65535) =>
        /\ op'.val = IF MemGet(spc.mem, 240) >= 128
                     THEN ROM[(op'.addr % 64) + 1]
                     ELSE MemGet(spc.mem, op'.addr)
        /\ spc' = spc
  /\ (op'.kind = "spc_write" /\ op'.addr \in 65472..65535) =>
        /\ MemGet(spc'.mem, op'.addr) = op'.val
        /\ \A a \in OverlayAddrs \ {op'.addr} : MemGet(spc'.mem, a) = MemGet(spc.mem, a)
        /\ spc' = [spc EXCEPT !.mem = spc'.mem]

C3_Overlay == [][C3_Step]_vars

\* With the overlay off the program reads at $FFC0 the byte it wrote there,
\* not the ROM's.
C3_Witness ==
  /\ op.kind = "spc_read" /\ op.addr = 65472 /\ op.val = 127
  /\ MemGet(spc.mem, 240) = 0

-----------------------------------------------------------------------------
(* The timers: the program writes $F1 and the period registers and reads    *)
(* the counters while update_timer is called.  The three timers share no    *)
(* state, so a behaviour ticks one of them, the one its history watches;    *)
(* the registers of all three are written and read.                         *)

\* update_timer calls followed for an enabled timer since it was switched on
MaxTimerTicks == 52

\* values written to $F1: all off, timer 0, timer 2, timers 0 and 1, all on
TimerControls == {0, 1, 7}

\* values written to $FA-$FC
TimerPeriods == {3}

TimerSpcWrite ==
  \/ \E val \in TimerControls : SpcWrite(241, val)
  \/ \E addr \in 250..252, val \in TimerPeriods : SpcWrite(addr, val)

TimerSpcRead == \E addr \in 253..255 : SpcRead(addr)

TimerTicks == hist.tticks < MaxTimerTicks /\ TimerTick(hist.watch)

InitTimer ==
  /\ spc = Spc700New
  /\ todo = 0
  /\ op = Op("none", 0, 0)
  /\ \E i \in 0..2 : hist = [Hist0 EXCEPT !.watch = i]

NextTimer == TimerSpcWrite \/ TimerSpcRead \/ TimerTicks

SpecTimer == InitTimer /\ [][NextTimer]_vars

\* The period of the watched timer: a register value of 0 is reached after
\* the 8-bit tick has wrapped, 256 ticks later.
WatchedPeriod ==
  IF spc.timer_max[hist.watch] = 0 THEN 256 ELSE spc.timer_max[hist.watch]

C7_Step ==
  /\ (op'.kind = "spc_write" /\ op'.addr = 241) =>
        spc'.timer_enable = op'.val % 8
  /\ (op'.kind = "spc_write" /\ op'.addr \in 250..252) =>
        spc' = [spc EXCEPT !.timer_max[op'.addr - 250] = op'.val]
  /\ (op'.kind = "spc_read" /\ op'.addr \in 253..255) =>
        /\ op'.val = spc.counters[op'.addr - 253]
        /\ spc' = [spc EXCEPT !.counters[op'.addr - 253] = 0]
  /\ (op'.kind = "update_timer" /\ Bit(spc.timer_enable, op'.addr) = 1) =>
        /\ \A j \in 0..2 \ {op'.addr} :
              spc'.timers[j] = spc.timers[j] /\ spc'.counters[j] = spc.counters[j]
        /\ spc'.timer_max = spc.timer_max /\ spc'.timer_enable = spc.timer_enable

\* the count of a timer that was switched on with period p and left alone
C7_Count ==
  hist.fresh =>
    /\ Bit(spc.timer_enable, hist.watch) = 1
    /\ spc.counters[hist.watch] = (hist.tticks \div WatchedPeriod) % 16
    /\ spc.timers[hist.watch] = hist.tticks % WatchedPeriod

C8_Original ==
  [][(op'.kind = "update_timer" /\ spc.counters[op'.addr] = 15)
       => spc'.counters[op'.addr] = 15]_vars

\* update_timer(i) on an enabled timer whose tick reaches the period
Expires(i) ==
  Bit(spc.timer_enable, i) = 1 /\ (spc.timers[i] + 1) % 256 = spc.timer_max[i]

(* C8, amended: the 4-bit output counter wraps: a period expiry adds 1      *)
(* modulo 16, so an expiry at 15 leaves 0; a tick that does not expire the  *)
(* period leaves the counter unchanged.                                     *)
C8_CounterWraps ==
  [][op'.kind = "update_timer" =>
       spc'.counters[op'.addr] =
         IF Expires(op'.addr) THEN (spc.counters[op'.addr] + 1) % 16
         ELSE spc.counters[op'.addr]]_vars

\* The 16th expiry since the counter was zeroed has just happened.
C8_Witness ==
  /\ op.kind = "update_timer" /\ hist.fresh
  /\ hist.tticks = 16 * WatchedPeriod /\ spc.counters[hist.watch] = 0

(* C9: a write to $F1 zeroes the tick and the counter of timer i exactly    *)
(* when bit i goes from clear to set; a write that keeps timer i enabled,   *)
(* or disables it, leaves both unchanged; update_timer leaves the tick and  *)
(* the counter of a disabled timer unchanged.                               *)
C9_Step ==
  /\ (op'.kind = "spc_write" /\ op'.addr = 241) =>
        \A i \in 0..2 :
          IF Bit(op'.val, i) = 1 /\ Bit(spc.timer_enable, i) = 0
          THEN spc'.timers[i] = 0 /\ spc'.counters[i] = 0
          ELSE spc'.timers[i] = spc.timers[i] /\ spc'.counters[i] = spc.counters[i]
  /\ (op'.kind = "update_timer" /\ Bit(spc.timer_enable, op'.addr) = 0) =>
        spc'.timers = spc.timers /\ spc'.counters = spc.counters

C9_EnableEdge == [][C9_Step]_vars

\* A write to $F1 that kept timer 0 enabled (it switched on the other two)
\* has left the tick and the counter of timer 0 as they were.
C9_Witness ==
  /\ op.kind = "spc_write" /\ op.addr = 241 /\ op.val = 7
  /\ hist.watch = 0 /\ hist.fresh
  /\ spc.timers[0] = 2 /\ spc.counters[0] = 1

-----------------------------------------------------------------------------
(* The accumulator: the host calls tick and refresh in any order, in a      *)
(* build with or without overflow checks.                                   *)

\* tick() calls followed in one behaviour
MaxTickCalls == 12

\* run_cycle steps followed in one behaviour: refresh() is followed when the
\* steps it owes stay within this total
MaxTickCycles == 3200

\* the n given to tick: the least that owes a cycle, and the largest u16
TickSizes == {21, 65535}

InitTick ==
  /\ \E checks \in BOOLEAN : spc = [Spc700New EXCEPT !.overflow_checks = checks]
  /\ todo = 0
  /\ op = Op("none", 0, 0)
  /\ hist = Hist0

TickCalls == hist.tick_calls < MaxTickCalls /\ \E n \in TickSizes : TickCall(n)

TickRefresh == hist.ran + RefreshCycles(spc) <= MaxTickCycles /\ RefreshCall

NextTick == TickCalls \/ TickRefresh \/ RunCycleStep

SpecTick == InitTick /\ [][NextTick]_vars

\* floor(m * t / d) without an intermediate product beyond the integer range
FloorMulDiv(m, t, d) == m * (t \div d) + (m * (t % d)) \div d

(* C4: from power-on, the run_cycle steps performed and still owed by the   *)
(* last refresh() total floor(M * T / D), T the sum of all n ticked before  *)
(* it, M = timing_proportion.1 the multiplier of tick and D =               *)
(* timing_proportion.0 the divisor of refresh; and refresh leaves less than *)
(* D in the accumulator.                                                    *)
C4_Conservation ==
  (hist.refreshed /\ Running(spc)) =>
    /\ hist.ran + todo =
         FloorMulDiv(spc.timing_proportion[2], hist.ticked_at_refresh,
                     spc.timing_proportion[1])
    /\ op.kind \in {"refresh", "run_cycle"} => RefreshCycles(spc) = 0

-----------------------------------------------------------------------------
(* The scheduler over a long run: the host ticks once nothing is owed and   *)
(* refreshes, past the wrap of the 16-bit dispatch counter.                 *)

\* run_cycle steps after which the host stops ticking
MaxSchedCycles == 65700

\* the n given to tick
SchedTicks == {65535}

SchedTick ==
  /\ NothingOwed
  /\ hist.ran < MaxSchedCycles
  /\ \E n \in SchedTicks : TickCall(n)

SchedRefresh == ~NothingOwed /\ RefreshCall

NextSched == SchedTick \/ SchedRefresh \/ RunCycleStep

SpecSched == Init /\ [][NextSched]_vars

(* C5: a run_cycle pushes exactly one stereo sample when the dispatch       *)
(* counter it starts with is a multiple of 32 and none otherwise; it ticks  *)
(* timers 0, 1 and 2 when the counter is a multiple of 128, timer 2 alone   *)
(* when it is another multiple of 16, and no timer otherwise; the counter   *)
(* counts the run_cycle steps modulo 2^16, so the periods carry over the    *)
(* wrap from $FFFF to 0.                                                    *)
C5_SubEvents ==
  /\ spc.dispatch_counter = hist.ran % 65536
  /\ op.kind = "run_cycle" =>
       /\ op.dc = (hist.ran - 1) % 65536
       /\ Len(spc.backend) = IF op.dc % 32 = 0 THEN 1 ELSE 0
       /\ spc.ticked = IF op.dc % 128 = 0 THEN <<0, 1, 2>>
                       ELSE IF op.dc % 16 = 0 THEN <<2>>
                       ELSE << >>

\* The run_cycle after the wrap: the 65537th starts with counter 0, pushes a
\* sample and ticks all three timers.
C5_Witness ==
  /\ op.kind = "run_cycle" /\ hist.ran = 65537 /\ op.dc = 0
  /\ Len(spc.backend) = 1 /\ spc.ticked = <<0, 1, 2>>

-----------------------------------------------------------------------------
(* The boot program: the host ticks, refreshes and polls ports 0 and 1.     *)

\* run_cycle steps after which the host stops ticking
MaxBootCycles == 4000

\* the n given to tick: master cycles the host lets pass between two refreshes
BootTicks == {1000}

BootTick ==
  /\ NothingOwed
  /\ hist.ran < MaxBootCycles
  /\ \E n \in BootTicks : TickCall(n)

BootPoll == \E bank \in HostBanks, port \in 0..1 : HostRead(bank, port, 1)

NextBoot == BootTick \/ RefreshCall \/ RunCycleStep \/ BootPoll

SpecBoot == Init /\ [][NextBoot]_vars

\* the opcode byte an instruction fetch at pc sees
MemOrRom(s, pc) ==
  IF pc >= 65472 /\ MemGet(s.mem, 240) >= 128 THEN ROM[(pc % 64) + 1]
  ELSE MemGet(s.mem, pc)

\* 2 when the conditional branch fetched by s at s.pc was taken, else 0: the
\* boot ROM's only branches are BNE ($D0) and BPL ($10), two bytes long
Taken(s, t) ==
  IF MemOrRom(s, s.pc) \in {16, 208} /\ t.pc # (s.pc + 2) % 65536 THEN 2 ELSE 0

(* C6: a run_cycle with a nonzero remaining-cycles counter decrements it    *)
(* and dispatches nothing; one with a zero counter dispatches the next      *)
(* instruction and sets the counter to its cycle count c (at least 1), less *)
(* the cycle just spent.  So the next dispatch comes exactly c run_cycle    *)
(* steps after this one, and the counter never goes below zero.             *)
C6_Step ==
  op'.kind = "run_cycle" =>
    /\ op'.dispatched = (spc.cycles_ahead = 0)
    /\ ~op'.dispatched =>
         /\ spc'.cycles_ahead = spc.cycles_ahead - 1
         /\ spc'.pc = spc.pc
    /\ op'.dispatched =>
         /\ op'.c = CYCLES[MemOrRom(spc, spc.pc) + 1] + Taken(spc, spc')
         /\ spc'.cycles_ahead = Max(op'.c, 1) - 1
         /\ hist.c >= 0 => hist'.gap = Max(hist.c, 1)
    /\ spc'.cycles_ahead >= 0

C6_Dispatch == [][C6_Step]_vars

\* Two dispatches five run_cycle steps apart, the earlier one of a 5-cycle
\* instruction.
C6_Witness ==
  /\ op.kind = "run_cycle" /\ op.dispatched
  /\ hist.gap = 5 /\ hist.gap_c = 5 /\ hist.instructions > 700

(* C10 as claimed: within the first 32 instructions the boot ROM has        *)
(* written $AA to output[0] and $BB to output[1].                           *)
C10_Original ==
  hist.instructions >= 32 => (spc.output[0] = 170 /\ spc.output[1] = 187)

(* C10, amended: running the boot ROM from power-on, the program writes $AA *)
(* to output[0] with its 721st instruction and $BB to output[1] with its    *)
(* 722nd (after it has zeroed $00-$EF, 3 instructions per byte), not        *)
(* earlier; from then on the host reads $AA from port 0 and $BB from        *)
(* port 1.                                                                  *)
C10_BootSignature ==
  /\ spc.output[0] = (IF hist.instructions >= 721 THEN 170 ELSE 0)
  /\ spc.output[1] = (IF hist.instructions >= 722 THEN 187 ELSE 0)
  /\ (op.kind = "host_read" /\ hist.instructions >= 722) =>
        op.val = (IF op.addr = 0 THEN 170 ELSE 187)

\* The host reads $BB from port 1 once the boot ROM has signalled.
C10_Witness ==
  /\ op.kind = "host_read" /\ op.addr = 1 /\ op.val = 187
  /\ hist.instructions >= 722

-----------------------------------------------------------------------------
(* The boot handshake: the host pumps the clock and, at a moment of its     *)
(* choice, writes $CC to port 0 (port 1 stays $00).                         *)

\* run_cycle steps the host lets pass, at most, before it writes $CC
MaxEchoWait == 3000

\* the program has answered: output[0] holds the $CC it read from input[0]
Echoed == spc.output[0] = 204

\* run_cycle steps the model follows the program for, at most
MaxEchoCycles == 3200

\* the host clock: it stops once the program has answered
EchoTick ==
  /\ NothingOwed
  /\ ~Echoed
  /\ hist.ran < (IF spc.input[0] = 204 THEN MaxEchoCycles ELSE MaxEchoWait)
  /\ \E n \in BootTicks : TickCall(n)

EchoHostWrite ==
  /\ NothingOwed
  /\ spc.input[0] # 204
  /\ \E bank \in HostBanks : HostWrite(bank, 0, 204, 1)

NextEcho == EchoTick \/ RefreshCall \/ RunCycleStep \/ EchoHostWrite

\* Spc700::refresh, `for _ in 0..cycles`: what an iteration does to the count of
\* iterations left.  RunCycleStep is the only action that is such a step.
RefreshLoop == Running(spc) /\ todo > 0 /\ todo' = todo - 1

\* the host keeps calling tick and refresh, and the loop of refresh runs to
\* its end unless the process has panicked
SpecEcho ==
  /\ Init /\ [][NextEcho]_vars
  /\ WF_vars(EchoTick) /\ WF_vars(RefreshCall) /\ WF_todo(RefreshLoop)

(* C11: running the boot ROM from power-on with the host clock pumped       *)
(* fairly, once the host has written $CC to input[0] (input[1] being 0)     *)
(* the program eventually writes the value of input[0] to output[0]; up to  *)
(* that point no unimplemented opcode and no unsupported MMIO access is     *)
(* reached: the emulator never faults.                                      *)
C11_Echo ==
  /\ [](spc.fault = "none")
  /\ (spc.input[0] = 204 /\ spc.input[1] = 0) ~> (spc.output[0] = spc.input[0])

\* The program has answered a $CC that the host wrote after the boot ROM had
\* signalled $AA, $BB and was polling port 0.
C11_Witness ==
  /\ Echoed /\ spc.input[0] = 204 /\ spc.input[1] = 0 /\ spc.output[1] = 187
  /\ spc.fault = "none" /\ hist.ran > 2500 /\ spc.a = 204

-----------------------------------------------------------------------------
(* Reset: the boot ROM runs, the program writes RAM and the control byte    *)
(* $F0, the host writes a port, and reset() is called at any moment         *)
(* between two host calls.                                                  *)

\* run_cycle steps the reset specification follows
MaxResetCycles == 100

\* what the program writes: $F0 with the ROM bit clear and set, and a RAM byte
ResetWrites == {<<240, 0>>, <<240, 128>>, <<512, 85>>}

ResetTick ==
  /\ NothingOwed
  /\ hist.ran < MaxResetCycles
  /\ \E n \in BootTicks : TickCall(n)

ResetSpcWrite == \E w \in ResetWrites : SpcWrite(w[1], w[2])

ResetHostWrite == \E bank \in HostBanks : HostWrite(bank, 0, 170, 1)

NextReset ==
  \/ ResetTick \/ RefreshCall \/ RunCycleStep
  \/ ResetSpcWrite \/ ResetHostWrite \/ ResetCall

SpecReset == Init /\ [][NextReset]_vars

\* the registers and mailboxes after reset()
ResetRegisters(s) ==
  /\ s.a = 0 /\ s.x = 0 /\ s.y = 0 /\ s.sp = 0 /\ s.status = 0
  /\ s.pc = 65472
  /\ \A k \in 0..3 : s.input[k] = 0 /\ s.output[k] = 0

\* the bytes of the 64 KiB array in which m1 and m2 differ
MemDiff(m1, m2) ==
  {k \in DOMAIN m1 \cup DOMAIN m2 : MemGet(m1, k) # MemGet(m2, k)}

\* C12 as stated: reset() leaves every byte of the 64 KiB array as it was.
C12_Original ==
  [][op'.kind = "reset" =>
       ResetRegisters(spc') /\ MemDiff(spc.mem, spc'.mem) = {}]_vars

(* C12: reset() sets A, X, Y, SP and the status register to 0, PC to $FFC0  *)
(* and all eight mailbox bytes to 0; it sets the control byte at $F0 to $80 *)
(* (boot ROM mapped) and leaves every other byte of the 64 KiB as it was.   *)
C12_Reset ==
  [][op'.kind = "reset" =>
       /\ ResetRegisters(spc')
       /\ MemDiff(spc.mem, spc'.mem) \subseteq {240}
       /\ MemGet(spc'.mem, 240) = F0_RESET]_vars

\* reset() was called after the program had run, had written $55 to $0200
\* and 0 to $F0, and the host had written $AA to port 0
C12_Witness ==
  /\ op.kind = "reset" /\ op.val = 0 /\ MemGet(spc.mem, 240) = F0_RESET
  /\ MemGet(spc.mem, 512) = 85
  /\ hist.hostwrote[0] = 170 /\ spc.input[0] = 0
  /\ hist.ran > 0 /\ spc.pc = 65472

-----------------------------------------------------------------------------
(* The DSP: a driver sets up voice 0 and the echo, then the emulator runs.  *)
(* A second instance (hist.twin) is given the same calls, except that the   *)
(* value it is given for the flags register $6C has bit 6, mute, set.       *)

\* run_cycle calls the DSP specification follows: 68 sample cycles
MaxDspCycles == 2200

\* Spc700::write called for each <<addr, val>> of seq, from the i-th on
RECURSIVE WriteAll(_, _, _)
WriteAll(s, seq, i) ==
  IF ~Running(s) \/ i > Len(seq) THEN s
  ELSE WriteAll(Write(s, seq[i][1], seq[i][2]), seq, i + 1)

\* the writes to $F2 and $F3 that put val into DSP register id
DspWrite(id, val) == << <<242, id>>, <<243, val>> >>

\* The driver's writes.  RAM: the directory at $0300 points voice 0 to the
\* looping BRR block at $0400 (header $C3).  DSP: voice 0 at full pitch and
\* volume with an ADSR envelope, echo on for voice 0 with feedback and one FIR
\* tap, the echo buffer at page `base`, its length register set to `delay`,
\* the flags register set to `flags`, and last the key-on of voice 0.
DspProgram(flags, base, delay) ==
  << <<769, 4>>, <<771, 4>>, <<1024, 195>>, <<1025, 127>>, <<1026, 121>> >>
  \o DspWrite(93, 3) \o DspWrite(4, 0)
  \o DspWrite(0, 127) \o DspWrite(1, 64) \o DspWrite(2, 255) \o DspWrite(3, 63)
  \o DspWrite(5, 255) \o DspWrite(6, 255) \o DspWrite(15, 127)
  \o DspWrite(12, 127) \o DspWrite(28, 127) \o DspWrite(44, 64) \o DspWrite(60, 64)
  \o DspWrite(13, 64) \o DspWrite(77, 1) \o DspWrite(109, base) \o DspWrite(125, delay)
  \o DspWrite(108, flags) \o DspWrite(76, 1)

\* flags with the echo write-back on and off; both leave reset and mute clear
DspFlags == {0, 32}

\* <<base, delay>>: an echo buffer of one entry in the middle of RAM, which each
\* sample cycle reads and writes, and one of 512 entries in the last page, from
\* where the echo offset carries the address past $FFFF
DspEchoes == {<<2, 0>>, <<255, 1>>}

\* the driver sets both instances up, before either has run
DspSetup ==
  /\ Idle
  /\ hist.twin = << >>
  /\ \E flags \in DspFlags, e \in DspEchoes :
       /\ spc' = WriteAll(spc, DspProgram(flags, e[1], e[2]), 1)
       /\ hist' = [hist EXCEPT
                     !.twin = WriteAll(spc, DspProgram(flags + 64, e[1], e[2]), 1)]
       /\ op' = Op("setup", e[1], flags)
  /\ UNCHANGED todo

\* Spc700::sound_cycle: the address of the echo buffer entry of this cycle
EchoAddr(s) == U16(s.dsp.echo_data_addr + s.dsp.echo_buffer_offset)

\* Spc700::run_cycle called on both instances; op.addr keeps the echo address
\* the cycle started with
PairRunCycle ==
  /\ Idle
  /\ hist.twin # << >>
  /\ hist.ran < MaxDspCycles
  /\ spc' = RunCycle([spc EXCEPT !.backend = << >>, !.ticked = << >>])
  /\ hist' = [hist EXCEPT
                !.ran = @ + 1,
                !.twin = RunCycle([@ EXCEPT !.backend = << >>, !.ticked = << >>])]
  /\ op' = [Op("run_cycle", EchoAddr(spc), 0) EXCEPT !.dc = spc.dispatch_counter]
  /\ UNCHANGED todo

NextDsp == DspSetup \/ PairRunCycle

SpecDsp == Init /\ [][NextDsp]_vars

\* s without what the mute bit is and without what it handed to the sink
Unmuted(s) == [s EXCEPT !.dsp.flags = BitAnd(@, 191), !.backend = << >>]

(* C13: mute is output-only.  Two instances that start in the same state    *)
(* and are given the same calls but differ in bit 6 of DSP register $6C     *)
(* have, after every sample cycle, the same RAM, voice, envelope, echo and  *)
(* FIR state (the same state altogether, that bit and the sink apart), and  *)
(* the instance with the bit set pushes (0, 0) to the sink at every sample  *)
(* cycle.                                                                   *)
C13_MuteOutputOnly ==
  hist.twin # << >> =>
    /\ Unmuted(spc) = Unmuted(hist.twin)
    /\ BitAnd(hist.twin.dsp.flags, 64) = 64 /\ BitAnd(spc.dsp.flags, 64) = 0
    /\ Len(hist.twin.backend) = Len(spc.backend)
    /\ \A k \in DOMAIN hist.twin.backend : hist.twin.backend[k] = StereoNew(0)

\* a sample cycle in which the audible instance pushed a sample that is not
\* silence while voice 0 played with its envelope up and the echo was written
C13_Witness ==
  /\ hist.twin # << >>
  /\ op.kind = "run_cycle" /\ SampleDue(op.dc)
  /\ Len(spc.backend) = 1 /\ spc.backend[1].l # 0 /\ spc.backend[1].r # 0
  /\ hist.twin.backend = << StereoNew(0) >>
  /\ spc.dsp.channels[0].gain > 0 /\ spc.dsp.channels[0].last_sample # 0
  /\ MemGet(spc.mem, op.addr) # 0
  /\ \E k \in 0..7 : spc.dsp.fir_buffer[k].l # 0

\* the state in which run_cycle, called in state s, reaches its sub-events
BeforeSubEvents(s) == InstructionStep([s EXCEPT !.backend = << >>, !.ticked = << >>])

\* the four bytes of the echo buffer entry at addr
EchoEntry(addr) == {U16(addr + k) : k \in 0..3}

(* C14: a sample cycle modifies RAM only through the echo write-back.  With *)
(* bit 5 of $6C set the sample cycle changes no RAM byte; with it clear     *)
(* only the four bytes at (echo data base + echo offset) .. +3, modulo      *)
(* 2^16, can change, and each of the two 16-bit words written there has     *)
(* bit 0 clear.                                                             *)
C14_EchoFrame ==
  [][op'.kind = "run_cycle" /\ SampleDue(op'.dc) =>
       IF BitAnd(BeforeSubEvents(spc).dsp.flags, 32) > 0
       THEN MemDiff(BeforeSubEvents(spc).mem, spc'.mem) = {}
       ELSE /\ MemDiff(BeforeSubEvents(spc).mem, spc'.mem) \subseteq EchoEntry(op'.addr)
            /\ op'.addr = EchoAddr(BeforeSubEvents(spc))
            /\ MemGet(spc'.mem, op'.addr) % 2 = 0
            /\ MemGet(spc'.mem, U16(op'.addr + 2)) % 2 = 0]_vars

\* a sample cycle has written an echo entry that is not silence at an address
\* that the offset had carried past $FFFF
C14_Witness ==
  /\ op.kind = "run_cycle" /\ SampleDue(op.dc)
  /\ BitAnd(spc.dsp.flags, 32) = 0
  /\ spc.dsp.echo_data_addr = 65280 /\ op.addr < 256
  /\ MemGet(spc.mem, op.addr) + MemGet(spc.mem, op.addr + 1) > 0
  /\ MemGet(spc.mem, op.addr + 2) + MemGet(spc.mem, op.addr + 3) > 0

-----------------------------------------------------------------------------
(* C15: no sequence of tick and refresh calls makes the master-cycle        *)
(* accumulator exceed its integer width: the addition in tick(n) does not   *)
(* overflow in any reachable state, whatever 16-bit n is, and however often *)
(* the host calls tick without a refresh in between.                        *)
C15_NoOverflow ==
  [][op'.kind = "tick" =>
       /\ ~CyclesAdd(spc.master_cycles,
                     CyclesFrom(op'.addr * spc.timing_proportion[2])).carry
       /\ Running(spc')]_vars

-----------------------------------------------------------------------------
(* Programs: a driver writes a short program to $FFC0.., under the boot     *)
(* ROM, and clears bit 7 of $F0, so that the SPC700 starts with the first   *)
(* byte of the program; then the host clock runs.                           *)

\* run_cycle steps a program is followed for
MaxOpsCycles == 28

\* tick(600) makes refresh run 28 cycles
OpsTicks == {600}

\* the opcode bytes for which the match of dispatch_instruction has no arm
NoHandler ==
  {1, 15, 17, 27, 30, 33, 39, 44, 49, 55, 57, 59, 65, 70, 71, 73, 74, 79, 80,
   81, 87, 89, 97, 103, 106, 108, 112, 113, 119, 121, 123, 127, 129, 134, 145,
   153, 161, 166, 167, 169, 177, 183, 184, 185, 190, 193, 202, 209, 217, 223,
   225, 239, 241, 255}

\* every opcode byte, followed by the operand bytes $10, $02
OneOpPrograms == {<<opc, 16, 2>> : opc \in 0..255}

\* BPL, BMI, BVC, BVS, BCC, BCS, BNE, BEQ
CondBranches == {16, 48, 80, 112, 144, 176, 208, 240}

\* BBS and BBC of each of the eight bits
BitBranches == {16 * k + 3 : k \in 0..15}

\* flag bytes: none, each of Sign, Overflow, Zero and Carry alone, and all four
BranchFlags == {0, 128, 64, 2, 1, 195}

\* branch offsets: forwards and backwards, near and far
BranchOffsets == {5, 127, 128, 251}

\* MOV A,#psw; PUSH A; POP PSW; then the conditional branch
CondBranchPrograms ==
  {<<232, psw, 45, 142, opc, rel>> :
     psw \in BranchFlags, opc \in CondBranches, rel \in BranchOffsets}

\* MOV $10,#val; then BBS or BBC on a bit of $10
BitBranchPrograms ==
  {<<143, val, 16, opc, 16, rel>> :
     val \in {0, 85, 255}, opc \in BitBranches, rel \in {5, 251}}

\* MOV X,#1; MOV A,#a; MOV $11,#v; then CBNE $11 or CBNE $10+X
CbnePrograms ==
  {<<205, 1, 232, a, 143, v, 17, opc[1], opc[2], rel>> :
     a \in {0, 7}, v \in {0, 7}, opc \in {<<46, 17>>, <<222, 16>>}, rel \in {5, 251}}

\* MOV $10,#v; DBNZ $10  and  MOV Y,#v; DBNZ Y  and  BRA
DbnzPrograms ==
  {<<143, v, 16, 110, 16, rel>> : v \in {0, 1, 2}, rel \in {5, 251}}
  \cup {<<141, v, 254, rel>> : v \in {0, 1, 2}, rel \in {5, 251}}
  \cup {<<47, rel>> : rel \in BranchOffsets}

\* operands of ADC and SBC: the ends and the middle of the 8-bit range, and
\* both sides of a carry out of the low nibble
AdcValues == {0, 1, 15, 16, 127, 128, 129, 255}

\* CLRC or SETC; MOV A,#a; ADC A,#b; SETC; SBC A,#b
AdcSbcPrograms ==
  {<<cc, 232, a, 136, b, 128, 168, b>> :
     cc \in {96, 128}, a \in AdcValues, b \in AdcValues}

\* YA as <<A, Y>>: both sides of a carry out of bit 11, and away from it
AddwValues == {<<255, 15>>, <<254, 15>>, <<0, 16>>, <<0, 8>>, <<1, 0>>}

\* MOV X,#x; MOV A,#a; MOV Y,#y; DIV YA,X
DivPrograms ==
  {<<205, x, 232, a, 141, y, 158>> :
     x \in {0, 1, 2, 16, 255}, a \in {0, 5, 255}, y \in {0, 1, 200, 255}}

\* MOV A,#lo; MOV Y,#hi; MOV $10,#w; then ADDW YA,$10 or SUBW YA,$10
AddwPrograms ==
  {<<232, ya[1], 141, ya[2], 143, w, 16, opc, 16>> :
     ya \in AddwValues, w \in {0, 1, 2, 255}, opc \in {122, 154}}

\* DECW, INCW, CMPW, ADDW, SUBW, MOVW YA,d and MOVW d,YA
WordOps == {26, 58, 90, 122, 154, 186, 218}

\* CLRP or SETP; MOV d,#lo; MOV d+1,#$12; MOV A,#1; then a word operation
\* on d: d = $20 in page 0 and in page 1, and d = $FF, the last byte of page 1;
\* the low byte is $00 or $FF, so that DECW and INCW reach the high byte
WordPrograms ==
  {<<pd[1], 143, lo, pd[2], 143, 18, (pd[2] + 1) % 256, 232, 1, opc, pd[2]>> :
     pd \in {<<32, 32>>, <<64, 32>>, <<64, 255>>}, lo \in {0, 255}, opc \in WordOps}

OpsPrograms ==
  OneOpPrograms \cup CondBranchPrograms \cup BitBranchPrograms
  \cup CbnePrograms \cup DbnzPrograms \cup AdcSbcPrograms \cup AddwPrograms
  \cup DivPrograms \cup WordPrograms

\* the writes that load prog: its bytes to $FFC0.., then 0 to $F0
ProgramWrites(prog) ==
  [k \in 1..Len(prog) |-> <<65471 + k, prog[k]>>] \o << <<240, 0>> >>

OpsLoad ==
  /\ Idle
  /\ op.kind = "none"
  /\ \E prog \in OpsPrograms :
       /\ spc' = WriteAll(spc, ProgramWrites(prog), 1)
       /\ op' = Op("load", 65472, Len(prog))
  /\ hist' = hist
  /\ UNCHANGED todo

OpsTick ==
  /\ op.kind # "none"
  /\ NothingOwed
  /\ hist.ran < MaxOpsCycles
  /\ \E n \in OpsTicks : TickCall(n)

NextOps == OpsLoad \/ OpsTick \/ RefreshCall \/ RunCycleStep

SpecOps == Init /\ [][NextOps]_vars

\* the step is a run_cycle that dispatches an instruction
Dispatches == op'.kind = "run_cycle" /\ op'.dispatched

\* the opcode byte that dispatch_instruction reads in state s
Opcode(s) == Load(s).val

(* C16: dispatching an opcode byte that has no handler is a fatal           *)
(* UnimplementedInstruction outcome, never a no-op: the run_cycle that      *)
(* dispatches it ends in that outcome before it produces a sample or ticks  *)
(* a timer, and afterwards the emulator is halted: no instruction is        *)
(* dispatched, no sample produced, no timer ticked, the state stays as it   *)
(* is.                                                                      *)
C16_Unimplemented ==
  [][/\ (Dispatches /\ Opcode(spc) \in NoHandler) =>
          /\ spc'.fault = "UnimplementedInstruction"
          /\ spc'.backend = << >> /\ spc'.ticked = << >>
          /\ spc'.dispatch_counter = spc.dispatch_counter
     /\ spc.fault = "UnimplementedInstruction" => UNCHANGED <<spc, hist>>
    ]_vars

\* the STOP opcode $FF, which has no handler, was the first instruction: the
\* emulator stopped in the eighth of the 28 cycles that refresh was to run
C16_Witness ==
  /\ spc.fault = "UnimplementedInstruction"
  /\ MemGet(spc.mem, 65472) = 255 /\ spc.pc = 65473
  /\ hist.instructions = 1 /\ hist.ran = 8 /\ todo = 20
  /\ spc.dispatch_counter = 7

\* the k-th byte after the opcode that dispatch_instruction reads in state s
Operand(s, k) == Read(s, U16(s.pc + k)).val

\* the flag condition of a conditional branch opcode, in status byte st
FlagCondition(opc, st) ==
  CASE opc = 16  -> BitAnd(st, SIGN) = 0
    [] opc = 48  -> BitAnd(st, SIGN) # 0
    [] opc = 80  -> BitAnd(st, OVERFLOW) = 0
    [] opc = 112 -> BitAnd(st, OVERFLOW) # 0
    [] opc = 144 -> BitAnd(st, CARRY) = 0
    [] opc = 176 -> BitAnd(st, CARRY) # 0
    [] opc = 208 -> BitAnd(st, ZERO) = 0
    [] opc = 240 -> BitAnd(st, ZERO) # 0

(* C17: each of the eight conditional branch opcodes BPL, BMI, BCC, BCS,    *)
(* BNE, BEQ, BVC and BVS is dispatched without an UnimplementedInstruction  *)
(* outcome and takes the branch exactly when its flag condition holds       *)
(* (Sign clear/set, Carry clear/set, Zero clear/set, Overflow clear/set).   *)
C17_CondBranches ==
  [][(Dispatches /\ Opcode(spc) \in CondBranches) =>
       /\ spc'.fault # "UnimplementedInstruction"
       /\ spc'.pc = IF FlagCondition(Opcode(spc), spc.status)
                    THEN U16(spc.pc + 2 + I8(Operand(spc, 1)))
                    ELSE U16(spc.pc + 2)]_vars

\* the number of operand bytes of a branching opcode
BranchLength(opc) == IF opc \in CondBranches \cup {47, 254} THEN 1 ELSE 2

(* C18: for every branching opcode (the conditional branches, BBS/BBC,      *)
(* CBNE, DBNZ, BRA) dispatch_instruction returns the opcode's table cycle   *)
(* count when the branch is not taken and that count plus 2 when it is      *)
(* taken, and BRA always returns 4; when taken, PC becomes the address      *)
(* following the operand bytes plus the sign-extended 8-bit offset (mod     *)
(* 2^16), otherwise the address following the operand bytes.                *)
C18_BranchCycles ==
  [][(Dispatches /\ Opcode(spc) \in CondBranches \cup BitBranches \cup {46, 222, 110, 254, 47}) =>
       /\ Running(spc')
       /\ \/ /\ op'.c = CyclesOf(Opcode(spc))
             /\ spc'.pc = U16(spc.pc + 1 + BranchLength(Opcode(spc)))
          \/ /\ op'.c = CyclesOf(Opcode(spc)) + 2
             /\ spc'.pc = U16(spc.pc + 1 + BranchLength(Opcode(spc))
                              + I8(Operand(spc, BranchLength(Opcode(spc)))))
       /\ Opcode(spc) = 47 => op'.c = 4]_vars

-----------------------------------------------------------------------------
(* The stack: push, pull, push16 and pull16 called in any order, the stack  *)
(* pointer starting at 0 and moving to both sides of the wrap at 0 / $FF.   *)

\* how far from 0 the stack pointer goes, downwards (from $FF) and upwards
MaxStackDepth == 3

StackWindow(sp) == U8(sp + MaxStackDepth) < 2 * MaxStackDepth

\* the bytes and words pushed
StackBytes == {90, 255}

StackWords == {23295, 165}

\* op.addr keeps the stack pointer the call started with
PushCall ==
  /\ Idle
  /\ StackWindow(U8(spc.sp - 1))
  /\ \E v \in StackBytes :
       /\ spc' = Push(spc, v)
       /\ op' = Op("push", spc.sp, v)
  /\ hist' = hist
  /\ UNCHANGED todo

PullCall ==
  /\ Idle
  /\ StackWindow(U8(spc.sp + 1))
  /\ spc' = Pull(spc).s
  /\ op' = Op("pull", spc.sp, Pull(spc).val)
  /\ hist' = hist
  /\ UNCHANGED todo

Push16Call ==
  /\ Idle
  /\ StackWindow(U8(spc.sp - 2))
  /\ \E w \in StackWords :
       /\ spc' = Push16(spc, w)
       /\ op' = Op("push16", spc.sp, w)
  /\ hist' = hist
  /\ UNCHANGED todo

Pull16Call ==
  /\ Idle
  /\ StackWindow(U8(spc.sp + 2))
  /\ spc' = Pull16(spc).s
  /\ op' = Op("pull16", spc.sp, Pull16(spc).val)
  /\ hist' = hist
  /\ UNCHANGED todo

NextStack == PushCall \/ PullCall \/ Push16Call \/ Pull16Call

SpecStack == Init /\ [][NextStack]_vars

\* the stack page
StackPage == 256..511

(* C19: stack discipline.  push writes at $0100|SP and then decrements SP,  *)
(* pull increments SP and then reads $0100|SP, both wrapping SP modulo 256, *)
(* so every stack access stays in $0100-$01FF; for every SP and value,      *)
(* push(v) followed by pull() returns v and restores SP, and push16(w)      *)
(* (high byte first) followed by pull16() returns w and restores SP.        *)
C19_Stack ==
  [][/\ op'.kind = "push" =>
          /\ 256 + spc.sp \in StackPage
          /\ MemGet(spc'.mem, 256 + spc.sp) = op'.val
          /\ MemDiff(spc.mem, spc'.mem) \subseteq {256 + spc.sp}
          /\ spc'.sp = (spc.sp + 255) % 256
     /\ op'.kind = "pull" =>
          /\ spc'.sp = (spc.sp + 1) % 256
          /\ 256 + spc'.sp \in StackPage
          /\ op'.val = MemGet(spc.mem, 256 + spc'.sp)
          /\ spc'.mem = spc.mem
     /\ op'.kind = "push16" =>
          /\ MemGet(spc'.mem, 256 + spc.sp) = op'.val \div 256
          /\ MemGet(spc'.mem, 256 + ((spc.sp + 255) % 256)) = (op'.val % 256)
          /\ MemDiff(spc.mem, spc'.mem) \subseteq StackPage
          /\ spc'.sp = (spc.sp + 254) % 256
     /\ op'.kind = "pull16" =>
          /\ spc'.sp = (spc.sp + 2) % 256
          /\ spc'.mem = spc.mem
     /\ (op.kind = "push" /\ op'.kind = "pull") =>
          op'.val = op.val /\ spc'.sp = op.addr
     /\ (op.kind = "push16" /\ op'.kind = "pull16") =>
          op'.val = op.val /\ spc'.sp = op.addr
    ]_vars

\* pull16 has returned the word $5AFF that push16 had pushed with the stack
\* pointer at 0: its high byte lies at $0100, its low byte at $01FF
C19_Witness ==
  /\ op.kind = "pull16" /\ op.val = 23295 /\ op.addr = 254 /\ spc.sp = 0
  /\ MemGet(spc.mem, 256) = 90 /\ MemGet(spc.mem, 511) = 255

\* the byte at offset k of the program that was loaded
ProgramByte(k) == MemGet(spc.mem, 65472 + k)

\* the program CLRC; MOV A,#a; ADC A,#b; SETC; SBC A,#b has run to its end
AdcSbcDone ==
  /\ ProgramByte(0) = 96 /\ ProgramByte(1) = 232 /\ ProgramByte(3) = 136
  /\ ProgramByte(5) = 128 /\ ProgramByte(6) = 168
  /\ ProgramByte(7) = ProgramByte(4)
  /\ hist.instructions >= 5

\* a and b have the same sign and res has the other
SignedOverflow(a, b, res) ==
  /\ (a >= 128) = (b >= 128)
  /\ (res >= 128) # (a >= 128)

(* C20: for all 8-bit a and b, ADC(a, b) with Carry clear followed by       *)
(* SBC(result, b) with Carry set returns a; and after ADC, with either      *)
(* carry-in, Overflow is set exactly when both operands have the same sign  *)
(* and the 8-bit result has the other sign.                                 *)
C20_AdcSbc ==
  /\ [](AdcSbcDone => spc.a = ProgramByte(2))
  /\ [][(Dispatches /\ Opcode(spc) = 136) =>
          /\ spc'.a = (spc.a + Operand(spc, 1) + BitAnd(spc.status, CARRY)) % 256
          /\ (BitAnd(spc'.status, OVERFLOW) # 0)
               = SignedOverflow(spc.a, Operand(spc, 1), spc'.a)]_vars

\* $7F + $01 with Carry clear gave $80 with Overflow set, and SBC #$01 with
\* Carry set has brought A back to $7F
C20_Witness ==
  /\ AdcSbcDone /\ ProgramByte(2) = 127 /\ ProgramByte(4) = 1
  /\ spc.a = 127 /\ hist.instructions = 5
  /\ BitAnd(spc.status, CARRY) = CARRY

\* the 16-bit word that a direct-page operand of the opcode in state s names
\* (direct page 0)
WordOperand(s) ==
  MemGet(s.mem, Operand(s, 1)) + 256 * MemGet(s.mem, (Operand(s, 1) + 1) % 256)

\* x + y + c carries out of bit n - 1: the low n bits do not hold the sum
CarryOutOf(n, x, y, c) == (x % Pow2(n)) + (y % Pow2(n)) + c >= Pow2(n)

HalfCarrySet(s) == BitAnd(s.status, HALF_CARRY) # 0

(* C21: Half-Carry after an addition is set exactly when there is a carry   *)
(* out of bit 3 for the 8-bit operations (ADC and SBC, the carry-in         *)
(* included) and a carry out of bit 11 for the 16-bit operations (ADDW and  *)
(* SUBW), for all operand values.  SBC adds the complement of its operand;  *)
(* SUBW adds the complement of its operand and 1.                           *)
C21_HalfCarry ==
  [][/\ (Dispatches /\ Opcode(spc) = 136) =>
          HalfCarrySet(spc') =
            CarryOutOf(4, spc.a, Operand(spc, 1), BitAnd(spc.status, CARRY))
     /\ (Dispatches /\ Opcode(spc) = 168) =>
          HalfCarrySet(spc') =
            CarryOutOf(4, spc.a, 255 - Operand(spc, 1), BitAnd(spc.status, CARRY))
     /\ (Dispatches /\ Opcode(spc) = 122) =>
          HalfCarrySet(spc') =
            CarryOutOf(12, spc.a + 256 * spc.y, WordOperand(spc), 0)
     /\ (Dispatches /\ Opcode(spc) = 154) =>
          HalfCarrySet(spc') =
            CarryOutOf(12, spc.a + 256 * spc.y, 65535 - WordOperand(spc), 1)
    ]_vars

OverflowSet(s) == BitAnd(s.status, OVERFLOW) # 0

(* C22: executing DIV with X = 0 yields A = $FF, Y = the value A had before *)
(* the instruction, and Overflow set, for every prior value of Y and A; for *)
(* X # 0 it yields A = the low byte of (YA div X), Y = YA mod X, and        *)
(* Overflow set exactly when the quotient exceeds $FF.                      *)
C22_Div ==
  [][(Dispatches /\ Opcode(spc) = 158) =>
       IF spc.x = 0
       THEN spc'.a = 255 /\ spc'.y = spc.a /\ OverflowSet(spc')
       ELSE /\ spc'.a = ((spc.a + 256 * spc.y) \div spc.x) % 256
            /\ spc'.y = (spc.a + 256 * spc.y) % spc.x
            /\ OverflowSet(spc') = ((spc.a + 256 * spc.y) \div spc.x > 255)]_vars

\* DIV has run with X = 0, A = 5 and Y = 200
C22_Witness ==
  /\ ProgramByte(0) = 205 /\ ProgramByte(1) = 0 /\ ProgramByte(3) = 5
  /\ ProgramByte(5) = 200 /\ ProgramByte(6) = 158
  /\ hist.instructions = 4 /\ op.kind = "run_cycle" /\ op.dispatched
  /\ spc.x = 0 /\ spc.a = 255 /\ spc.y = 5 /\ OverflowSet(spc)

-----------------------------------------------------------------------------
(* The register page $F0-$FF: the program reads and writes every address of *)
(* it, the host fills a mailbox port and timer 1 ticks.                     *)

MaxMmioTicks == 2

\* the bytes the program writes: 0, and $57 (all three timers on, bit 4 set)
MmioValues == {0, 87}

\* the addresses the program writes
MmioWriteAddrs == {240, 241, 242, 244, 248, 249, 250, 253, 254, 255}

MmioRead == \E addr \in 240..255 : SpcRead(addr)

MmioWrite == \E addr \in MmioWriteAddrs, val \in MmioValues : SpcWrite(addr, val)

MmioHostWrite == HostWrite(0, 0, 170, 1)

MmioTick == spc.timers[1] < MaxMmioTicks /\ TimerTick(1)

NextMmio == MmioRead \/ MmioWrite \/ MmioHostWrite \/ MmioTick

SpecMmio == Init /\ [][NextMmio]_vars

\* the access is fatal and leaves every field of the object as it was
FatalMmio == spc' = [spc EXCEPT !.fault = "UnsupportedMmio"]

(* C23: an SPC700 read of $F1 or $F8-$FC, and an SPC700 write to $F8, $F9   *)
(* or $FD-$FF, ends in the fatal UnsupportedMmio outcome and changes no RAM *)
(* byte, mailbox byte or timer state; a read of $F0 or $F2 returns the RAM  *)
(* byte and changes nothing, a write to $F0 or $F2 stores the byte in RAM   *)
(* and changes nothing else, and neither fails.                             *)
C23_UnsupportedMmio ==
  [][ /\ (op'.kind = "spc_read" /\ op'.addr \in {241} \cup (248..252)) => FatalMmio
      /\ (op'.kind = "spc_write" /\ op'.addr \in {248, 249, 253, 254, 255}) => FatalMmio
      /\ (op'.kind = "spc_read" /\ op'.addr \in {240, 242}) =>
            spc' = spc /\ op'.val = MemGet(spc.mem, op'.addr)
      /\ (op'.kind = "spc_write" /\ op'.addr \in {240, 242}) =>
            /\ Running(spc')
            /\ [spc' EXCEPT !.mem = spc.mem] = spc
            /\ \A a \in (0..255) \cup (65472..65535) :
                  MemGet(spc'.mem, a) = IF a = op'.addr THEN op'.val
                                        ELSE MemGet(spc.mem, a) ]_vars

\* a read of $F8 has failed with the mailbox, the timers and $F2 in use
C23_Witness ==
  /\ op.kind = "spc_read" /\ op.addr = 248
  /\ spc.fault = "UnsupportedMmio"
  /\ spc.input[0] = 170 /\ spc.output[0] = 87
  /\ spc.timer_enable = 7 /\ spc.timers[1] = 2
  /\ MemGet(spc.mem, 242) = 87

-----------------------------------------------------------------------------
(* The DSP register file: the program selects a register through $F2,       *)
(* writes it through $F3 and reads it back through $F3.                     *)

\* the register ids the program selects: $00-$7F without $7C
RegIds == (0..127) \ {124}

RegValues == {0, 85, 255}

\* the byte the driver's start-up puts into register id: a different one for
\* every id, none of them 0
RegFill(id) == (5 * id + 17) % 256

\* the driver's start-up: every register of RegIds is given its RegFill byte
RegsFillProgram ==
  [k \in 1..254 |->
     IF k % 2 = 1
     THEN <<242, IF (k - 1) \div 2 < 124 THEN (k - 1) \div 2 ELSE (k + 1) \div 2>>
     ELSE <<243, RegFill(IF (k - 2) \div 2 < 124 THEN (k - 2) \div 2 ELSE k \div 2)>>]

RegsFill ==
  /\ Idle
  /\ op.kind = "none"
  /\ spc' = WriteAll(WriteAll(WriteAll(WriteAll(spc,
                SubSeq(RegsFillProgram, 1, 64), 1),
                SubSeq(RegsFillProgram, 65, 128), 1),
                SubSeq(RegsFillProgram, 129, 192), 1),
                SubSeq(RegsFillProgram, 193, 254), 1)
  /\ op' = Op("setup", 0, 0)
  /\ UNCHANGED <<todo, hist>>

RegsSelect == hist.dspw < MaxRegWrites /\ \E id \in RegIds : SpcWrite(242, id)

RegsWrite == hist.dspw < MaxRegWrites /\ \E v \in RegValues : SpcWrite(243, v)

RegsRead == SpcRead(243)

NextRegs == RegsFill \/ RegsSelect \/ RegsWrite \/ RegsRead

SpecRegs == Init /\ [][NextRegs]_vars

\* the bits of register id that a read returns
RegMask(id) ==
  IF id % 16 = 3 THEN 63 ELSE IF id = 45 THEN 254 ELSE IF id = 125 THEN 15 ELSE 255

\* what the program reads from $F3 once it has written id to $F2
ReadBack(s, id) == Read(Write(s, 242, id), 243).val

(* C24: for every DSP register id in $00-$7F other than $7C, a write of v   *)
(* through $F2/$F3 followed at once by a read of the same id returns v      *)
(* masked to the register's width ($3F for x3, $FE for $2D, $0F for $7D,    *)
(* $FF for the others), and the write changes the value read back from no   *)
(* other register id.                                                       *)
C24_DspReadBack ==
  [][ /\ (op'.kind = "spc_write" /\ op'.addr = 243) =>
            /\ Running(spc')
            /\ \A id \in RegIds :
                  ReadBack(spc', id) =
                    IF id = MemGet(spc.mem, 242)
                    THEN BitAnd(op'.val, RegMask(id))
                    ELSE ReadBack(spc, id)
      /\ (op'.kind = "spc_read" /\ op'.addr = 243
            /\ op.kind = "spc_write" /\ op.addr = 243) =>
            /\ Running(spc')
            /\ op'.val = BitAnd(op.val, RegMask(MemGet(spc.mem, 242))) ]_vars

\* $FF written to the echo delay register $7D has been read back as $0F,
\* with the other registers holding what the start-up gave them
C24_Witness ==
  /\ op.kind = "spc_read" /\ op.addr = 243 /\ op.val = 15
  /\ MemGet(spc.mem, 242) = 125
  /\ hist.dspw = 1
  /\ spc.dsp.echo_delay = 7680
  /\ \A id \in RegIds \ {125} : ReadBack(spc, id) = BitAnd(RegFill(id), RegMask(id))

-----------------------------------------------------------------------------
(* The sample directory: the program writes the source numbers of voices 0  *)
(* and 1 and the directory base, as often and in whatever order it likes.   *)

\* source number of voice 0, source number of voice 1, directory base
DirIds == {4, 20, 93}

DirValues == {0, 1, 64, 255}

DirSelect == \E id \in DirIds : SpcWrite(242, id)

DirWrite == \E v \in DirValues : SpcWrite(243, v)

NextDir == DirSelect \/ DirWrite

SpecDir == Init /\ [][NextDir]_vars

\* this step writes DSP register id
WritesRegister(id) ==
  op'.kind = "spc_write" /\ op'.addr = 243 /\ MemGet(spc.mem, 242) = id

(* C25: after any sequence of DSP register writes, in any order, every      *)
(* voice v has dir_addr(v) = (base + 4 * source_number(v)) mod 2^16, where  *)
(* base is the last value written to $5D shifted left by 8 (0 at power-on)  *)
(* and source_number(v) the last value written to register v4.              *)
C25_DirAddr ==
  [][ /\ spc'.dsp.source_dir_addr =
            IF WritesRegister(93) THEN 256 * op'.val ELSE spc.dsp.source_dir_addr
      /\ \A v \in 0..7 :
            /\ spc'.dsp.channels[v].source_number =
                  IF WritesRegister(16 * v + 4) THEN op'.val
                  ELSE spc.dsp.channels[v].source_number
            /\ spc'.dsp.channels[v].dir_addr =
                  (spc'.dsp.source_dir_addr
                     + 4 * spc'.dsp.channels[v].source_number) % 65536 ]_vars

\* base $FF00 with source numbers $FF and $40: both sums pass $FFFF
C25_Witness ==
  /\ spc.dsp.source_dir_addr = 65280
  /\ spc.dsp.channels[0].source_number = 255 /\ spc.dsp.channels[0].dir_addr = 764
  /\ spc.dsp.channels[1].source_number = 64 /\ spc.dsp.channels[1].dir_addr = 0
  /\ op.kind = "spc_write" /\ op.addr = 243

-----------------------------------------------------------------------------
(* Envelopes and keys: after the driver's set-up the program writes the key *)
(* registers, ADSR1, the gain register and the flags, and sound_cycle is    *)
(* called directly, with the dispatch counter at 32: every call applies     *)
(* the keys.                                                                *)

MaxEnvSamples == 5

\* <<register, value>>: key-on and key-off of voice 0, ADSR1 with bit 7 set
\* and clear, a direct gain, the reset flag
EnvWrites ==
  {<<76, 1>>, <<92, 1>>, <<92, 0>>, <<5, 255>>, <<5, 15>>, <<7, 127>>,
   <<108, 128>>, <<108, 0>>}

\* Spc700::run_cycle called directly, before the set-up
EnvRunCycle ==
  /\ Idle
  /\ op.kind \in {"none", "run_cycle"}
  /\ spc.dispatch_counter < 32
  /\ spc' = RunCycle([spc EXCEPT !.backend = << >>, !.ticked = << >>])
  /\ op' = [Op("run_cycle", 0, 0) EXCEPT !.dc = spc.dispatch_counter,
                                          !.dispatched = spc.cycles_ahead = 0]
  /\ hist' = [hist EXCEPT !.ran = @ + 1]
  /\ UNCHANGED todo

EnvSetup ==
  /\ Idle
  /\ op.kind \in {"none", "run_cycle"}
  /\ spc.dispatch_counter = 32
  /\ spc' = WriteAll(spc, DspProgram(0, 2, 0), 1)
  /\ op' = Op("setup", 2, 0)
  /\ UNCHANGED <<todo, hist>>

EnvWrite ==
  /\ Idle
  /\ op.kind \in {"setup", "dsp_write", "sound_cycle"}
  /\ \E w \in EnvWrites : spc' = WriteAll(spc, DspWrite(w[1], w[2]), 1)
  /\ op' = Op("dsp_write", 0, 0)
  /\ UNCHANGED <<todo, hist>>

\* Spc700::sound_cycle called directly
EnvSample ==
  /\ Idle
  /\ op.kind \in {"setup", "dsp_write", "sound_cycle"}
  /\ hist.samples < MaxEnvSamples
  /\ spc' = SoundCycle([spc EXCEPT !.backend = << >>, !.ticked = << >>])
  /\ op' = [Op("sound_cycle", 0, 0) EXCEPT !.dc = spc.dispatch_counter]
  /\ hist' = [hist EXCEPT !.samples = @ + 1]
  /\ UNCHANGED todo

NextEnv == EnvRunCycle \/ EnvSetup \/ EnvWrite \/ EnvSample

SpecEnv == Init /\ [][NextEnv]_vars

(* C26: in every reachable state, after any sequence of register writes,    *)
(* key-ons, key-offs and sample cycles, the envelope level of every voice   *)
(* lies in 0..$7FF, and the assertion of it in the sample cycle never fails. *)
C26_EnvelopeBound ==
  /\ \A v \in 0..7 : spc.dsp.channels[v].gain \in 0..2047
  /\ spc.fault # "DebugAssertGain"

\* the attack of voice 0 has reached the upper bound
C26_Witness ==
  /\ op.kind = "sound_cycle"
  /\ spc.dsp.channels[0].gain = 2047
  /\ spc.dsp.channels[0].period = Decay

\* the first word of the directory entry of the voice
DirectoryWord(s, ch) ==
  MemGet(s.mem, ch.dir_addr) + 256 * MemGet(s.mem, U16(ch.dir_addr + 1))

\* the voice fetches no BRR block in the sample cycle that starts in s
NoBlockFetched(s, v) ==
  s.dsp.channels[v].pitch_counter + s.dsp.channels[v].pitch <= 65535

\* voice v has been started by the sample cycle from s to t; the envelope has
\* made at most one attack step since, and a voice that fetched no block still
\* has the address, the flags and the buffer the start gave it
StartedBy(s, t, v) ==
  /\ t.dsp.channels[v].period =
        IF BitAnd(s.dsp.channels[v].adsr[0], 128) > 0 THEN Attack ELSE Gain
  /\ t.dsp.channels[v].gain \in {0, 32, 1024, BitAnd(s.dsp.channels[v].gain_mode, 127)}
  /\ NoBlockFetched(s, v) =>
        /\ t.dsp.channels[v].data_addr = DirectoryWord(s, s.dsp.channels[v])
        /\ ~t.dsp.channels[v].end_bit /\ ~t.dsp.channels[v].loop_bit
        /\ \A k \in 0..(DECODE_BUFFER_SIZE - 1) : t.dsp.channels[v].decode_buffer[k] = 0

(* C27: in a sample cycle that applies the key registers, every voice whose *)
(* key-on bit is set is started (data address from the directory entry, end *)
(* and loop flags cleared, envelope and decode buffer zeroed, phase Attack  *)
(* when ADSR1 bit 7 is set and Gain otherwise), whatever its key-off bit is. *)
C27_KeyOn ==
  [][(op'.kind = "sound_cycle" /\ KeysApplied(spc.dispatch_counter)) =>
       \A v \in 0..7 :
         Bit(spc.dsp.fade_in, v) = 1 => StartedBy(spc, spc', v)]_vars

(* C28: while bit 7 of DSP register $6C is set, at the end of every sample  *)
(* cycle every voice is in phase Release with envelope 0 and last output    *)
(* sample 0, whatever the key and ADSR registers and the sample data hold.  *)
C28_ResetFlag ==
  (op.kind = "sound_cycle" /\ BitAnd(spc.dsp.flags, 128) > 0) =>
    \A v \in 0..7 :
      /\ spc.dsp.channels[v].period = Release
      /\ spc.dsp.channels[v].gain = 0
      /\ spc.dsp.channels[v].last_sample = 0

-----------------------------------------------------------------------------
(* The BRR decoder on one nibble: a block header, a nibble and the two      *)
(* samples decoded before it.                                               *)

\* shift 0, 12 and 13 with each of the four filters
BrrHeaders == {16 * sh + f : sh \in {0, 12, 13}, f \in {0, 4, 8, 12}}

\* earlier samples, as the decode buffer holds them
BrrOlds == {-16384, -1, 0, 1, 16383}

InitBrr ==
  /\ spc = Spc700New
  /\ todo = 0
  /\ hist = Hist0
  /\ \E header \in BrrHeaders, nib \in 0..15, old \in BrrOlds, older \in BrrOlds :
       op = [Op("brr_input", header, nib) EXCEPT !.c = <<old, older>>]

\* Spc700::sound_cycle, the decoding of one nibble; op.dc takes the sample
BrrDecodeNibble ==
  /\ op.kind = "brr_input"
  /\ op' = [op EXCEPT !.kind = "brr_sample",
                      !.dc = BrrSample(op.addr, op.val, op.c[1], op.c[2])]
  /\ UNCHANGED <<spc, todo, hist>>

NextBrr == BrrDecodeNibble

SpecBrr == InitBrr /\ [][NextBrr]_vars

\* the reconstructed sample of the nibble in op, clamped to signed 16 bits
BrrClamped ==
  Clamp(BrrFilter(op.addr, BrrShift(op.addr, Nibble(op.val)), op.c[1], op.c[2]),
        -32768, 32767)

(* C29 as claimed: each reconstructed sample is clamped to signed 16 bits   *)
(* and then folded: a clamped value greater than $3FFF has $10000           *)
(* subtracted, one less than -$4000 has $10000 added, all others are stored *)
(* unchanged.                                                               *)
C29_Original ==
  op.kind = "brr_sample" =>
    op.dc = IF BrrClamped > 16383 THEN BrrClamped - 65536
            ELSE IF BrrClamped < -16384 THEN BrrClamped + 65536
            ELSE BrrClamped

(* C29: each reconstructed sample is clamped to signed 16 bits and then     *)
(* folded into 15 bits: a clamped value greater than $3FFF has $8000        *)
(* subtracted, one less than -$4000 has $8000 added, all others are stored  *)
(* unchanged; the stored sample lies in -$4000..$3FFF.                      *)
C29_BrrFold ==
  op.kind = "brr_sample" =>
    /\ op.dc = IF BrrClamped > 16383 THEN BrrClamped - 32768
               ELSE IF BrrClamped < -16384 THEN BrrClamped + 32768
               ELSE BrrClamped
    /\ op.dc \in -16384..16383

\* a sample that the clamp cut to $7FFF has been stored as -1
C29_Witness ==
  /\ op.kind = "brr_sample"
  /\ BrrFilter(op.addr, BrrShift(op.addr, Nibble(op.val)), op.c[1], op.c[2]) > 32767
  /\ BrrClamped = 32767
  /\ op.dc = -1

-----------------------------------------------------------------------------
(* The timing of the keys: run_cycle is called over and over, and at some   *)
(* point the program writes the key-on or the key-off bit of voice 0.  It   *)
(* may first clear the flags register, which holds $E0 after construction.  *)

MaxKeysCycles == 100

\* Spc700::run_cycle called directly
KeysRunCycle ==
  /\ Idle
  /\ spc.dispatch_counter < MaxKeysCycles
  /\ spc' = RunCycle([spc EXCEPT !.backend = << >>, !.ticked = << >>])
  /\ op' = [Op("run_cycle", 0, 0) EXCEPT !.dc = spc.dispatch_counter,
                                          !.dispatched = spc.cycles_ahead = 0]
  /\ hist' = [hist EXCEPT !.ran = @ + 1]
  /\ UNCHANGED todo

\* the program sets bit 0 of the key-on ($4C) or of the key-off ($5C) register
KeysWrite ==
  /\ Idle
  /\ hist.dspw < MaxRegWrites
  /\ \E id \in {76, 92} :
       /\ spc' = WriteAll(spc, DspWrite(id, 1), 1)
       /\ op' = Op("dsp_write", id, 1)
  /\ hist' = [hist EXCEPT !.dspw = @ + 1]
  /\ UNCHANGED todo

\* the program clears the reset, mute and echo flags
KeysSetup ==
  /\ Idle
  /\ op.kind = "none"
  /\ spc' = WriteAll(spc, DspWrite(108, 0), 1)
  /\ op' = Op("setup", 108, 0)
  /\ UNCHANGED <<todo, hist>>

NextKeys == KeysSetup \/ KeysRunCycle \/ KeysWrite

SpecKeys == Init /\ [][NextKeys]_vars

\* this step is a run_cycle that holds a sample cycle
SampleCycle == op'.kind = "run_cycle" /\ op'.dc % 32 = 0 /\ Running(spc')

\* the sample cycle of this step has applied the key registers
KeysTaken ==
  /\ spc'.dsp.fade_in = BitAnd(spc.dsp.fade_in, spc.dsp.fade_out)
  /\ \A v \in 0..7 :
       /\ Bit(spc.dsp.fade_out, v) = 1 => spc'.dsp.channels[v].period = Release
       /\ (Bit(spc.dsp.fade_in, v) = 1 /\ Bit(spc.dsp.fade_out, v) = 0) =>
             spc'.dsp.channels[v].period =
               IF BitAnd(spc.dsp.channels[v].adsr[0], 128) > 0 THEN Attack ELSE Gain

\* the sample cycle of this step has keyed no voice on or off: a phase
\* changes only by the reset flag
KeysIgnored ==
  /\ spc'.dsp.fade_in = spc.dsp.fade_in
  /\ \A v \in 0..7 :
       spc'.dsp.channels[v].period =
         IF BitAnd(spc.dsp.flags, 128) > 0 THEN Release
         ELSE spc.dsp.channels[v].period

(* C30 as claimed: the key registers are applied in every sample cycle but  *)
(* the first of each 64-sample frame, 63 of any 64 consecutive sample       *)
(* cycles; in the remaining one no voice is keyed on or off.                *)
C30_Original ==
  [][SampleCycle =>
       IF (op'.dc \div 32) % 64 # 0 THEN KeysTaken ELSE KeysIgnored]_vars

(* C30: the key registers are applied in every sample cycle whose dispatch  *)
(* counter has nonzero low 6 bits, which is every second sample cycle (the  *)
(* counter is 32 modulo 64); in the other sample cycles (the counter is a   *)
(* multiple of 64) both masks are zero and no voice is keyed on or off.     *)
C30_Keys ==
  [][SampleCycle =>
       /\ op'.dc % 64 \in {0, 32}
       /\ IF op'.dc % 64 # 0 THEN KeysTaken ELSE KeysIgnored]_vars

\* the third sample cycle (dispatch counter 64) has left the key-on of voice 0
\* pending
C30_Witness ==
  /\ op.kind = "run_cycle" /\ op.dc = 64
  /\ hist.dspw = 1
  /\ spc.dsp.flags = 0
  /\ spc.dsp.fade_in = 1 /\ spc.dsp.fade_out = 0
  /\ spc.dsp.channels[0].period = Attack

\* voice v has not been started by the sample cycle from s to t
NotStartedBy(s, t, v) ==
  /\ t.dsp.channels[v].period = Attack => s.dsp.channels[v].period = Attack
  /\ NoBlockFetched(s, v) =>
        /\ t.dsp.channels[v].data_addr = s.dsp.channels[v].data_addr
        /\ t.dsp.channels[v].end_bit = s.dsp.channels[v].end_bit
        /\ t.dsp.channels[v].loop_bit = s.dsp.channels[v].loop_bit
        /\ t.dsp.channels[v].decode_buffer = s.dsp.channels[v].decode_buffer

\* what the program reads from the key-on register $4C
KeyOnReadBack(s) == ReadBack(s, 76)

(* C31: a sample cycle that applies the key registers uses the previous     *)
(* key-on register as its key-on mask and replaces the register by          *)
(* (previous key-on AND key-off): a key-on bit whose key-off bit is clear   *)
(* starts its voice and reads back as 0 afterwards, so that the voice is    *)
(* started once per write to $4C (a voice whose key-on bit is clear is not  *)
(* started), while a key-on bit whose key-off bit is set stays pending in   *)
(* the register.                                                            *)
C31_KeyOnLatch ==
  [][(op'.kind = "sound_cycle" /\ KeysApplied(spc.dispatch_counter)) =>
       /\ spc'.dsp.fade_in = BitAnd(spc.dsp.fade_in, spc.dsp.fade_out)
       /\ \A v \in 0..7 :
            /\ (Bit(spc.dsp.fade_in, v) = 1 /\ Bit(spc.dsp.fade_out, v) = 0) =>
                  StartedBy(spc, spc', v) /\ Bit(KeyOnReadBack(spc'), v) = 0
            /\ (Bit(spc.dsp.fade_in, v) = 1 /\ Bit(spc.dsp.fade_out, v) = 1) =>
                  Bit(KeyOnReadBack(spc'), v) = 1
            /\ Bit(spc.dsp.fade_in, v) = 0 =>
                  NotStartedBy(spc, spc', v) /\ Bit(KeyOnReadBack(spc'), v) = 0]_vars

\* the key-on of voice 0 is still pending after a sample cycle, its key-off
\* bit being set
C31_Witness ==
  /\ op.kind = "sound_cycle"
  /\ KeysApplied(spc.dispatch_counter)
  /\ spc.dsp.fade_in = 1 /\ spc.dsp.fade_out = 1
  /\ spc.dsp.channels[0].period = Release
  /\ hist.samples >= 2

-----------------------------------------------------------------------------
(* The phases of the envelope: as above, with writes that lower the sustain *)
(* threshold (ADSR2 = $DF: $700), clear ADSR1 bit 7 and set bit 7 of the    *)
(* gain register, so that a voice can stay in Decay and can be in Gain      *)
(* without a direct gain.                                                   *)

MaxPhaseSamples == 4

PhaseWrites ==
  {<<76, 1>>, <<92, 1>>, <<92, 0>>, <<5, 15>>, <<6, 223>>, <<7, 255>>, <<108, 128>>}

PhaseWrite ==
  /\ Idle
  /\ op.kind \in {"setup", "dsp_write", "sound_cycle"}
  /\ \E w \in PhaseWrites : spc' = WriteAll(spc, DspWrite(w[1], w[2]), 1)
  /\ op' = Op("dsp_write", 0, 0)
  /\ UNCHANGED <<todo, hist>>

PhaseSample == hist.samples < MaxPhaseSamples /\ EnvSample

NextPhase == EnvRunCycle \/ EnvSetup \/ PhaseWrite \/ PhaseSample

SpecPhase == Init /\ [][NextPhase]_vars

\* this step is a sample cycle that applies the key registers with the
\* key-on bit of voice v set
KeyOnOf(v) ==
  /\ op'.kind = "sound_cycle"
  /\ KeysApplied(spc.dispatch_counter)
  /\ Bit(spc.dsp.fade_in, v) = 1

(* C32: without a key-on of that voice, the ADSR phase of a voice never     *)
(* moves backwards: from Attack it goes only to Decay (the envelope then    *)
(* exceeds $7DF) or Release, from Decay only to Sustain (the envelope then  *)
(* is below the sustain threshold) or Release, from Sustain and Gain only   *)
(* to Release, and from Release nowhere.                                    *)
C32_PhaseOrder ==
  [][\A v \in 0..7 :
       (~KeyOnOf(v) /\ spc'.dsp.channels[v].period # spc.dsp.channels[v].period) =>
         \/ spc'.dsp.channels[v].period = Release
         \/ /\ spc.dsp.channels[v].period = Attack
            /\ spc'.dsp.channels[v].period = Decay
            /\ spc'.dsp.channels[v].gain > 2015
         \/ /\ spc.dsp.channels[v].period = Decay
            /\ spc'.dsp.channels[v].period = Sustain
            /\ spc'.dsp.channels[v].gain < spc'.dsp.channels[v].sustain]_vars

\* voice 0 has gone from Attack through Decay to Sustain
C32_Witness ==
  /\ op.kind = "sound_cycle"
  /\ spc.dsp.channels[0].period = Sustain
  /\ spc.dsp.channels[0].gain = 2039

(* C33: in no reachable state is update_gain invoked for a voice whose      *)
(* phase is Gain or Release: neither of its two failing branches is reached *)
(* by any sequence of DSP register writes, key-ons, key-offs and sample     *)
(* cycles.                                                                  *)
C33_UpdateGainPhases ==
  spc.fault \notin {"TodoGainMode", "UpdateGainInRelease"}

\* voice 0 has been through sample cycles in phase Gain with bit 7 of the gain
\* register set (no direct gain), and another voice in Release
C33_Witness ==
  /\ op.kind = "sound_cycle"
  /\ Running(spc)
  /\ hist.samples >= 2
  /\ spc.dsp.channels[0].period = Gain
  /\ spc.dsp.channels[0].gain_mode = 255
  /\ BitAnd(spc.dsp.channels[0].adsr[0], 128) = 0

-----------------------------------------------------------------------------
(* BRR blocks: voice 0 plays a sample whose first block has the header      *)
(* `header` and starts at `start`; the block after it (at start + 9) ends   *)
(* the sample without loop, and the loop pointer of the directory entry     *)
(* leads to a block at $0500 that ends and loops.  sound_cycle is called    *)
(* directly, and the program may key the voice on again at any time.        *)

MaxBlockSamples == 14

\* shift 12; filter 0 with no flag, with end, with end and loop; filter 1
BlockHeaders == {192, 193, 195, 196}

\* the first block in the middle of RAM, and across the end of RAM
BlockStarts == {1024, 65530}

\* pitch high bytes: a block every 4 and every 8 sample cycles
BlockPitches == {63, 32}

BlockProgram(header, start, pitch) ==
  << <<768, start % 256>>, <<769, start \div 256>>, <<770, 0>>, <<771, 5>>,
     <<start, header>>, <<U16(start + 1), 127>>, <<U16(start + 2), 119>>,
     <<U16(start + 8), 121>>,
     <<U16(start + 9), 193>>, <<U16(start + 10), 23>>,
     <<1280, 3>>, <<1281, 35>> >>
  \o DspWrite(108, 32) \o DspWrite(93, 3) \o DspWrite(4, 0)
  \o DspWrite(0, 127) \o DspWrite(1, 64) \o DspWrite(2, 255) \o DspWrite(3, pitch)
  \o DspWrite(5, 255) \o DspWrite(6, 255) \o DspWrite(12, 127) \o DspWrite(28, 127)
  \o DspWrite(76, 1)

BlockSetup ==
  /\ Idle
  /\ op.kind \in {"none", "run_cycle"}
  /\ spc.dispatch_counter = 32
  /\ \E header \in BlockHeaders, start \in BlockStarts, pitch \in BlockPitches :
       /\ spc' = WriteAll(spc, BlockProgram(header, start, pitch), 1)
       /\ op' = Op("setup", start, header)
  /\ UNCHANGED <<todo, hist>>

\* the program writes the key-on bit of voice 0 again
BlockKeyOn ==
  /\ Idle
  /\ op.kind = "sound_cycle"
  /\ spc.dsp.fade_in = 0
  /\ spc' = WriteAll(spc, DspWrite(76, 1), 1)
  /\ op' = Op("dsp_write", 76, 1)
  /\ UNCHANGED <<todo, hist>>

BlockSample ==
  /\ Idle
  /\ op.kind \in {"setup", "dsp_write", "sound_cycle"}
  /\ hist.samples < MaxBlockSamples
  /\ spc' = SoundCycle([spc EXCEPT !.backend = << >>, !.ticked = << >>])
  /\ op' = [Op("sound_cycle", 0, 0) EXCEPT !.dc = spc.dispatch_counter]
  /\ hist' = [hist EXCEPT !.samples = @ + 1]
  /\ UNCHANGED todo

NextBlock == EnvRunCycle \/ BlockSetup \/ BlockKeyOn \/ BlockSample

SpecBlock == Init /\ [][NextBlock]_vars

\* the sample cycle that starts in s keys voice v on
KeyedOn(s, v) ==
  /\ KeysApplied(s.dispatch_counter)
  /\ Bit(s.dsp.fade_in, v) = 1 /\ Bit(s.dsp.fade_out, v) = 0

\* the end flag of the block before the one fetched in the cycle from s
PreviousEnd(s, v) == ~KeyedOn(s, v) /\ s.dsp.channels[v].end_bit

\* the start of the block that voice v fetches in the cycle from s
BlockStart(s, v) ==
  IF PreviousEnd(s, v)
  THEN MemGet(s.mem, U16(s.dsp.channels[v].dir_addr + 2))
       + 256 * MemGet(s.mem, U16(s.dsp.channels[v].dir_addr + 3))
  ELSE IF KeyedOn(s, v) THEN DirectoryWord(s, s.dsp.channels[v])
  ELSE s.dsp.channels[v].data_addr

(* C34: each pitch-counter overflow of a voice consumes exactly one 9-byte  *)
(* BRR block: the block is read from the loop pointer (second word of the   *)
(* directory entry) if the end flag of the previous block was set, and from *)
(* the current sample-data address otherwise; afterwards the sample-data    *)
(* address is the start of the block + 9 (mod 2^16) and the end and loop    *)
(* flags are bits 0 and 1 of its header; a voice whose previous block had   *)
(* end set and loop clear ends the sample cycle in Release with envelope 0. *)
(* A sample cycle without overflow consumes no block.                       *)
C34_BrrBlocks ==
  [][op'.kind = "sound_cycle" /\ Running(spc') =>
       \A v \in 0..7 :
         (Bit(spc.dsp.pitch_modulation, v) = 0 \/ v = 0) =>
           IF NoBlockFetched(spc, v)
           THEN ~KeyedOn(spc, v) =>
                  spc'.dsp.channels[v].data_addr = spc.dsp.channels[v].data_addr
           ELSE /\ spc'.dsp.channels[v].data_addr = U16(BlockStart(spc, v) + 9)
                /\ spc'.dsp.channels[v].end_bit =
                     (Bit(MemGet(spc.mem, BlockStart(spc, v)), 0) = 1)
                /\ spc'.dsp.channels[v].loop_bit =
                     (Bit(MemGet(spc.mem, BlockStart(spc, v)), 1) = 1)
                /\ \A k \in 0..2 :
                     spc'.dsp.channels[v].decode_buffer[k] =
                       IF KeyedOn(spc, v) THEN 0
                       ELSE spc.dsp.channels[v].decode_buffer[DECODE_BUFFER_SIZE - 3 + k]
                /\ (PreviousEnd(spc, v) /\ ~spc.dsp.channels[v].loop_bit) =>
                     /\ spc'.dsp.channels[v].period = Release
                     /\ spc'.dsp.channels[v].gain = 0]_vars

\* voice 0 has run into the end of its sample: it has fetched the block at the
\* loop pointer $0500 and is in Release
C34_Witness ==
  /\ op.kind = "sound_cycle"
  /\ spc.dsp.fade_in = 0 /\ spc.dsp.fade_out = 0
  /\ spc.dsp.channels[0].data_addr = 1289
  /\ spc.dsp.channels[0].end_bit /\ spc.dsp.channels[0].loop_bit
  /\ spc.dsp.channels[0].period = Release
  /\ spc.dsp.channels[0].gain = 0

(* C35: in every reachable state each of the 19 entries of the decode       *)
(* buffer of every voice lies in -$4000..$3FFF, and the index into the      *)
(* buffer, pitch_counter >> 12, plus 3 does not exceed 18: the Gaussian     *)
(* interpolation reads inside the buffer.                                   *)
C35_DecodeBuffer ==
  \A v \in 0..7 :
    /\ DOMAIN spc.dsp.channels[v].decode_buffer = 0..(DECODE_BUFFER_SIZE - 1)
    /\ DECODE_BUFFER_SIZE = 19
    /\ \A k \in 0..(DECODE_BUFFER_SIZE - 1) :
         spc.dsp.channels[v].decode_buffer[k] \in -16384..16383
    /\ Shr(spc.dsp.channels[v].pitch_counter, 12) + 3 <= DECODE_BUFFER_SIZE - 1

\* the interpolation has read the last four entries of a buffer that holds a
\* sample which left 15 bits in the filter and was folded back
C35_Witness ==
  /\ op.kind = "sound_cycle"
  /\ Running(spc)
  /\ Shr(spc.dsp.channels[0].pitch_counter, 12) = 15
  /\ spc.dsp.channels[0].decode_buffer[3] = 14336
  /\ spc.dsp.channels[0].decode_buffer[5] < 0
  /\ spc.dsp.channels[0].decode_buffer[18] # 0

-----------------------------------------------------------------------------
(* The echo buffer: sound_cycle is called directly on the object as         *)
(* constructed (echo length 1, echo writes off), and the program writes the *)
(* echo-delay register $7D before the first sample cycle and again in the   *)
(* middle of a period.                                                      *)

\* values written to $7D: lengths 1, 512, 7680 and, with high bits set, 512
EchoDelays == {0, 1, 15, 241}

\* the countdown value at which the program rewrites $7D inside a period
EchoWritePoint == 300

\* the length the register holds after val was written to it
EchoLength(val) == IF val % 16 = 0 THEN 1 ELSE 512 * (val % 16)

EchoDelayWrite ==
  /\ Idle
  /\ op.kind = "none" \/ spc.dsp.echo_index = EchoWritePoint
  /\ \E val \in EchoDelays :
       /\ spc' = WriteAll(spc, DspWrite(125, val), 1)
       /\ op' = Op("dsp_write", 125, val)
  /\ hist' = [hist EXCEPT !.period = 0]
  /\ UNCHANGED todo

\* a cycle that leaves the offset at 0 has loaded the countdown
EchoSample ==
  /\ Idle
  /\ spc' = SoundCycle([spc EXCEPT !.backend = << >>, !.ticked = << >>])
  /\ op' = [Op("sound_cycle", 0, 0) EXCEPT !.dc = spc.dispatch_counter]
  /\ hist' = [hist EXCEPT !.period = IF spc'.dsp.echo_buffer_offset = 0
                                     THEN spc'.dsp.echo_index ELSE @]
  /\ UNCHANGED todo

NextDelay == EchoDelayWrite \/ EchoSample

SpecDelay == Init /\ [][NextDelay]_vars

\* the state between two sample cycles keeps the echo offset, the countdown and
\* the FIR head index in their ranges
EchoInRange ==
  /\ spc.fault # "ArithmeticOverflow"
  /\ spc.dsp.echo_buffer_offset % 4 = 0
  /\ spc.dsp.echo_buffer_offset \in 0..(4 * 7680)
  /\ spc.dsp.echo_buffer_offset + 4 <= 65535
  /\ spc.dsp.echo_index >= 1
  /\ spc.dsp.fir_buffer_index \in 0..7

\* since the countdown was loaded with the length L the register still holds,
\* the offset the next sample cycle uses is 4 * (cycles since then)
EchoPeriod ==
  hist.period > 0 =>
    /\ hist.period = spc.dsp.echo_delay
    /\ spc.dsp.echo_index \in 1..hist.period
    /\ spc.dsp.echo_buffer_offset = 4 * (hist.period - spc.dsp.echo_index)

(* C36: with the echo-delay register holding L samples, L = max(1, 512 *    *)
(* (value & 15)), and not rewritten, the echo offset used by successive     *)
(* sample cycles runs 0, 4, ..., 4 * (L - 1) from the next offset reset on  *)
(* and then returns to 0; in every reachable state, also when $7D is        *)
(* rewritten inside a period, the offset is a multiple of 4 not above       *)
(* 4 * 7680, the countdown is at least 1 between sample cycles and the FIR  *)
(* head index is in 0..7, so neither the 16-bit addition to the offset nor  *)
(* the decrement of the countdown overflows.                                *)
C36_EchoOffset ==
  /\ [](EchoInRange /\ EchoPeriod)
  /\ [][(op'.kind = "dsp_write" =>
             spc'.dsp.echo_delay = EchoLength(op'.val))
         /\ op'.kind = "sound_cycle" =>
             /\ EchoAddr(spc) = U16(spc.dsp.echo_data_addr + spc.dsp.echo_buffer_offset)
             /\ spc'.dsp.fir_buffer_index = (spc.dsp.fir_buffer_index + 1) % 8
             /\ IF spc.dsp.echo_index = 1
                THEN /\ spc'.dsp.echo_buffer_offset = 0
                     /\ spc'.dsp.echo_index = spc.dsp.echo_delay
                ELSE /\ spc'.dsp.echo_buffer_offset = spc.dsp.echo_buffer_offset + 4
                     /\ spc'.dsp.echo_index = spc.dsp.echo_index - 1]_vars

\* the last sample cycle of a period of 7680 is next: it uses the offset
\* 4 * 7679
C36_Witness ==
  /\ op.kind = "sound_cycle"
  /\ hist.period = 7680
  /\ spc.dsp.echo_index = 1
  /\ spc.dsp.echo_buffer_offset = 30716

-----------------------------------------------------------------------------
(* The DSP register port with every value the program can store in $F2.     *)

IdsValues == {0, 85}

IdsSelect == hist.dspw < MaxRegWrites /\ \E id \in 0..255 : SpcWrite(242, id)

IdsWrite == hist.dspw < MaxRegWrites /\ \E v \in IdsValues : SpcWrite(243, v)

IdsRead == SpcRead(243)

NextIds == IdsSelect \/ IdsWrite \/ IdsRead

SpecIds == Init /\ [][NextIds]_vars

\* the object with the low 7 bits of $F2 in the place of $F2
LowSeven(s) == Write(s, 242, MemGet(s.mem, 242) % 128)

(* C37: DSP registers are addressed by a 7-bit id: for each of the 256      *)
(* values the program can store in $F2, a read or a write of $F3 completes  *)
(* without a fatal outcome and selects the register that the low 7 bits of  *)
(* $F2 name.                                                                *)
C37_DspIds ==
  [][/\ (op'.kind = "spc_read" /\ op'.addr = 243) =>
           /\ Running(spc')
           /\ op'.val = Read(LowSeven(spc), 243).val
     /\ (op'.kind = "spc_write" /\ op'.addr = 243) =>
           /\ Running(spc')
           /\ spc'.dsp = Write(LowSeven(spc), 243, op'.val).dsp]_vars

-----------------------------------------------------------------------------
(* C38: a host access of any supported width (read or write of 1 or 2       *)
(* bytes, read of 3 bytes) that starts at any of $2140-$2143 of a system    *)
(* bank completes without failure and touches only bytes of the four-byte   *)
(* mailbox of its direction: output for reads, input for writes.            *)
C38_HostAccess ==
  [][/\ op'.kind = "host_read" =>
           /\ Running(spc')
           /\ spc' = spc
           /\ op'.val = FromLeBytes([k \in 1..op'.width |-> spc.output[op'.addr + k - 1]])
     /\ op'.kind = "host_write" =>
           /\ Running(spc')
           /\ spc' = [spc EXCEPT !.input = spc'.input]
           /\ \A k \in 0..3 :
                spc'.input[k] =
                  IF k \in op'.addr..(op'.addr + op'.width - 1)
                  THEN ToLeBytes(op'.val, op'.width)[k - op'.addr + 1]
                  ELSE spc.input[k]]_vars

-----------------------------------------------------------------------------
(* Direct-page words                                                        *)

\* the addresses of the low and of the high byte of the direct-page word the
\* instruction about to be dispatched names: both in the selected page
DpLow(s) == GetSmall(s, Operand(s, 1))

DpHigh(s) == GetSmall(s, (Operand(s, 1) + 1) % 256)

DpWord(s) == MemGet(s.mem, DpLow(s)) + 256 * MemGet(s.mem, DpHigh(s))

\* from s to t the word has become `word`, and the byte after the low byte, if
\* it is not the high byte, has stayed as it was
DpWordBecomes(s, t, word) ==
  \A a \in {DpLow(s), DpHigh(s), U16(DpLow(s) + 1)} :
    MemGet(t.mem, a) = IF a = DpLow(s) THEN word % 256
                       ELSE IF a = DpHigh(s) THEN word \div 256
                       ELSE MemGet(s.mem, a)

(* C39: direct-page addressing resolves the operand d to $0100 | d when the *)
(* Direct-Page-Select flag is set and to d when it is clear, and every      *)
(* 16-bit direct-page operand (MOVW, ADDW, SUBW, CMPW, INCW, DECW) has its  *)
(* high byte at offset (d + 1) mod 256 of the same page: a word access at   *)
(* d = $FF neither reads nor writes a byte of the next page.                *)
C39_DirectPageWords ==
  [][(Dispatches /\ Opcode(spc) \in WordOps /\ Running(spc')) =>
       /\ DpLow(spc) = Operand(spc, 1)
                         + (IF BitAnd(spc.status, ZERO_PAGE) # 0 THEN 256 ELSE 0)
       /\ Opcode(spc) = 58 => DpWordBecomes(spc, spc', (DpWord(spc) + 1) % 65536)
       /\ Opcode(spc) = 26 => DpWordBecomes(spc, spc', (DpWord(spc) + 65535) % 65536)
       /\ Opcode(spc) = 218 => DpWordBecomes(spc, spc', Ya(spc))
       /\ Opcode(spc) = 186 => Ya(spc') = DpWord(spc) /\ spc'.mem = spc.mem
       /\ Opcode(spc) = 122 => Ya(spc') = (Ya(spc) + DpWord(spc)) % 65536
       /\ Opcode(spc) = 154 => Ya(spc') = (Ya(spc) + 65536 - DpWord(spc)) % 65536
       /\ Opcode(spc) = 90 =>
            /\ Ya(spc') = Ya(spc)
            /\ (BitAnd(spc'.status, ZERO) # 0) = (Ya(spc) = DpWord(spc))]_vars

====
